---- MODULE Spec2Model ----
(***************************************************************************)
(* Verification model of the admission-data fusion core:                   *)
(*   - SemanticValidator.validate_program_name  (processors/validator.py)  *)
(*   - RomanianProgramMatcher                   (enrichment/matcher.py)    *)
(*   - DataFusionEngine._fuse_data              (enrichment/matcher.py)    *)
(*                                                                         *)
(* Conventions.                                                            *)
(*  * A Python string is a sequence of characters; a character is a        *)
(*    one-element TLA+ string.  Romanian diacritics are written with an    *)
(*    ASCII mark after the base letter: "a~" (a-breve), "a^", "i^",        *)
(*    "s," / "t," (comma below), "s;" / "t;" (cedilla), and the same with  *)
(*    a capital base letter for the upper-case forms.                      *)
(*  * Python's None and a missing dictionary key are both written None     *)
(*    where the code reads the field with .get().                          *)
(*  * Fractions are kept exact as scaled integers:                         *)
(*      match score        in thousandths   (0.65 -> 650)                  *)
(*      arbitration total  in hundredths    (content*100 + match*1000)     *)
(*      likelihood         in 1/10000       (round(x, 4) is then exact)    *)
(*  * rapidfuzz (fuzz.token_set_ratio, fuzz.partial_ratio) is a library    *)
(*    outside the repository.  It is modelled as a fixed but arbitrary     *)
(*    table `fuzz`, chosen in Init, that returns 100 for two equal         *)
(*    non-empty strings and a percentage otherwise.                        *)
(***************************************************************************)
EXTENDS Integers, Sequences, FiniteSets, TLC

None == "None"

(***************************************************************************)
(* Characters and Python str predicates                                    *)
(***************************************************************************)
LowerAscii ==
  {"a","b","c","d","e","f","g","h","i","j","k","l","m",
   "n","o","p","q","r","s","t","u","v","w","x","y","z"}

UpperAscii ==
  {"A","B","C","D","E","F","G","H","I","J","K","L","M",
   "N","O","P","Q","R","S","T","U","V","W","X","Y","Z"}

LowerDiacritics == {"a~", "a^", "i^", "s,", "s;", "t,", "t;"}

UpperDiacritics == {"A~", "A^", "I^", "S,", "S;", "T,", "T;"}

Digits == {"0","1","2","3","4","5","6","7","8","9"}

Whitespace == {" "}

\* str.lower() on one character
LowerOf ==
  ("A" :> "a") @@ ("B" :> "b") @@ ("C" :> "c") @@ ("D" :> "d") @@ ("E" :> "e") @@
  ("F" :> "f") @@ ("G" :> "g") @@ ("H" :> "h") @@ ("I" :> "i") @@ ("J" :> "j") @@
  ("K" :> "k") @@ ("L" :> "l") @@ ("M" :> "m") @@ ("N" :> "n") @@ ("O" :> "o") @@
  ("P" :> "p") @@ ("Q" :> "q") @@ ("R" :> "r") @@ ("S" :> "s") @@ ("T" :> "t") @@
  ("U" :> "u") @@ ("V" :> "v") @@ ("W" :> "w") @@ ("X" :> "x") @@ ("Y" :> "y") @@
  ("Z" :> "z") @@ ("A~" :> "a~") @@ ("A^" :> "a^") @@ ("I^" :> "i^") @@ ("S," :> "s,") @@
  ("S;" :> "s;") @@ ("T," :> "t,") @@ ("T;" :> "t;")

(***************************************************************************)
(* Python str helpers                                                      *)
(***************************************************************************)
IsDigit(c) == c \in Digits

IsLowerCh(c) == c \in LowerAscii \cup LowerDiacritics

IsUpperCh(c) == c \in UpperAscii \cup UpperDiacritics

IsAlpha(c) == IsLowerCh(c) \/ IsUpperCh(c)

IsSpace(c) == c \in Whitespace

\* the regex class \w : letters, digits and the underscore
IsWordCh(c) == IsAlpha(c) \/ IsDigit(c) \/ c = "_"

LowerCh(c) == IF c \in DOMAIN LowerOf THEN LowerOf[c] ELSE c

\* str.lower()
Lower(s) == [i \in 1..Len(s) |-> LowerCh(s[i])]

RECURSIVE LStrip(_)
LStrip(s) == IF s # <<>> /\ IsSpace(Head(s)) THEN LStrip(Tail(s)) ELSE s

RECURSIVE RStrip(_)
RStrip(s) ==
  IF s # <<>> /\ IsSpace(s[Len(s)]) THEN RStrip(SubSeq(s, 1, Len(s) - 1)) ELSE s

\* str.strip()
Strip(s) == RStrip(LStrip(s))

\* the chained .replace() calls that map diacritics to ASCII (on lower-cased text)
StripDiacritic(c) ==
  CASE c \in {"s;", "s,"} -> "s"
    [] c \in {"t;", "t,"} -> "t"
    [] c \in {"a~", "a^"} -> "a"
    [] c = "i^" -> "i"
    [] OTHER -> c

\* re.sub(r"[^\w\s]", " ", text)
BlankNonWord(s) ==
  [i \in 1..Len(s) |-> IF IsWordCh(s[i]) \/ IsSpace(s[i]) THEN s[i] ELSE " "]

\* str.split(): the maximal runs of non-whitespace characters, in order
RECURSIVE SplitFrom(_, _, _)
SplitFrom(s, i, cur) ==
  IF i > Len(s)
    THEN IF cur = <<>> THEN <<>> ELSE <<cur>>
    ELSE IF IsSpace(s[i])
           THEN (IF cur = <<>> THEN <<>> ELSE <<cur>>) \o SplitFrom(s, i + 1, <<>>)
           ELSE SplitFrom(s, i + 1, Append(cur, s[i]))

Split(s) == SplitFrom(s, 1, <<>>)

\* " ".join(tokens)
RECURSIVE JoinSpace(_)
JoinSpace(toks) ==
  IF toks = <<>> THEN <<>>
  ELSE IF Len(toks) = 1 THEN toks[1]
  ELSE toks[1] \o <<" ">> \o JoinSpace(Tail(toks))

\* str.startswith / str.endswith
StartsWith(t, kw) == Len(t) >= Len(kw) /\ SubSeq(t, 1, Len(kw)) = kw

EndsWith(t, suf) ==
  Len(t) >= Len(suf) /\ SubSeq(t, Len(t) - Len(suf) + 1, Len(t)) = suf

\* `needle in haystack`
Contains(hay, needle) ==
  \E i \in 0..(Len(hay) - Len(needle)) : SubSeq(hay, i + 1, i + Len(needle)) = needle

\* str.istitle(): upper-case letters only after uncased characters, lower-case
\* letters only after cased ones, and at least one cased character
RECURSIVE TitleScan(_, _, _, _)
TitleScan(s, i, prevCased, anyCased) ==
  IF i > Len(s) THEN anyCased
  ELSE IF IsUpperCh(s[i])
         THEN (IF prevCased THEN FALSE ELSE TitleScan(s, i + 1, TRUE, TRUE))
  ELSE IF IsLowerCh(s[i])
         THEN (IF prevCased THEN TitleScan(s, i + 1, TRUE, TRUE) ELSE FALSE)
  ELSE TitleScan(s, i + 1, FALSE, anyCased)

IsTitle(s) == TitleScan(s, 1, FALSE, FALSE)

CountDigits(s) == Cardinality({i \in 1..Len(s) : IsDigit(s[i])})

\* len([c for c in s if c.isalpha()])
CountAlpha(s) == Cardinality({i \in 1..Len(s) : IsAlpha(s[i])})

(***************************************************************************)
(* SemanticValidator  (processors/validator.py)                            *)
(***************************************************************************)

\* len(set(c for c in s if c.isalpha()))
UniqueAlpha(s) == Cardinality({s[i] : i \in {j \in 1..Len(s) : IsAlpha(s[j])}})
\* validator.py:14-21
NEGATIVE_KEYWORDS ==
  <<
    <<"s","e","c","r","e","t","a","r","i","a","t">>, <<"c","o","n","t","a","c","t">>,
    <<"a","c","a","s","a">>, <<"h","o","m","e">>, <<"m","e","n","i","u">>,
    <<"s","e","a","r","c","h">>, <<"r","e","g","u","l","a","m","e","n","t">>,
    <<"c","o","n","c","u","r","s">>, <<"b","i","b","l","i","o","t","e","c">>,
    <<"c","a","m","p","u","s">>, <<"c","a","z","a","r","e">>, <<"b","u","r","s","e">>,
    <<"o","r","a","r">>, <<"p","r","o","i","e","c","t">>, <<"p","a","r","t","e","n","e","r">>,
    <<"d","e","s","p","r","e">>, <<"i","s","t","o","r","i","c">>,
    <<"c","o","n","d","u","c","e","r">>, <<"d","e","p","a","r","t","a","m","e","n","t">>,
    <<"l","o","g","i","n">>, <<"h","a","r","t","a">>, <<"g","d","p","r">>,
    <<"c","o","o","k","i","e","s">>, <<"a","n","u","n","t">>,
    <<"e","v","e","n","i","m","e","n","t">>, <<"n","o","u","t","a","t">>,
    <<"p","r","e","s","a">>, <<"m","e","d","i","a">>, <<"g","a","l","e","r","i","e">>,
    <<"a","d","m","i","t","e","r","e">>, <<"i","n","s","c","r","i","e","r">>,
    <<"s","e","c","r","e","t","a","r","i">>
  >>

\* validator.py:23-32
POSITIVE_KEYWORDS ==
  <<
    <<"i","n","g","i","n","e","r">>, <<"s","t","i","i","n","t">>, <<"l","i","m","b">>,
    <<"l","i","t","e","r","a","t","u","r">>, <<"s","t","u","d","i">>,
    <<"m","a","s","t","e","r">>, <<"l","i","c","e","n","t">>, <<"m","a","n","a","g">>,
    <<"d","r","e","p","t">>, <<"i","n","f","o","r","m","a","t">>,
    <<"t","e","h","n","o","l","o","g">>, <<"m","a","t","e","m","a","t">>,
    <<"c","h","i","m","i">>, <<"f","i","z","i","c">>, <<"b","i","o","l","o","g">>,
    <<"g","e","o","g","r","a","f","i">>, <<"i","s","t","o","r","i">>,
    <<"t","e","o","l","o","g">>, <<"a","r","t","e">>, <<"m","u","z","i","c">>,
    <<"t","e","a","t","r">>, <<"p","e","d","a","g","o","g">>, <<"s","p","o","r","t">>,
    <<"e","d","u","c","a","t","i">>, <<"a","d","m","i","n","i","s","t","r","a">>,
    <<"e","c","o","n","o","m">>, <<"f","i","n","a","n","t">>, <<"d","i","d","a","c">>,
    <<"p","s","i","h","o","l","o","g">>, <<"c","o","m","u","n","i","c">>,
    <<"s","o","c","i","o","l","o","g">>, <<"a","r","h","i","t","e","c","t">>,
    <<"c","o","n","s","t","r","u","c","t">>, <<"e","l","e","c","t","r">>,
    <<"m","e","c","a","n","i","c">>, <<"a","g","r","o","n","o","m">>,
    <<"h","o","r","t","i","c","u","l","t">>, <<"s","i","l","v","i","c","u","l","t">>,
    <<"m","a","r","k","e","t","i","n","g">>, <<"c","o","n","t","a","b">>,
    <<"s","t","a","t","i","s","t","i","c">>, <<"k","i","n","e","t","o","t","e","r","a","p">>,
    <<"f","a","r","m","a","c">>
  >>

\* validator.py:34-37
PROGRAM_SUFFIXES ==
  <<
    <<"o","l","o","g","i","e">>, <<"i","s","t","i","c","a">>, <<"l","o","g","i","e">>,
    <<"g","r","a","f","i","e">>, <<"m","e","t","r","i","e">>, <<"n","o","m","i","c">>,
    <<"g","e","n","i","e">>, <<"t","u","r","i","s","m">>, <<"s","i","l","v","i","c">>,
    <<"s","a","n","i","t","a","r">>, <<"j","u","r","i","d","i","c">>
  >>

\* SemanticValidator._normalize_text
NormalizeText(text) ==
  LET low == Strip(Lower(text))
      asc == [i \in 1..Len(low) |-> StripDiacritic(low[i])]
  IN  BlankNonWord(asc)

\* SemanticValidator._tokenize
Tokenize(text) == Split(text)

\* SemanticValidator._has_keyword
HasKeyword(tokens, keywords) ==
  \E k \in 1..Len(keywords) : \E t \in 1..Len(tokens) :
     StartsWith(tokens[t], keywords[k])

\* first keyword, in list order, that some token starts with (validator.py:87-89)
FirstKeyword(tokens, keywords) ==
  LET hits == {k \in 1..Len(keywords) :
                 \E t \in 1..Len(tokens) : StartsWith(tokens[t], keywords[k])}
  IN  keywords[CHOOSE k \in hits : \A j \in hits : k <= j]

HasSuffix(tokens) ==
  \E t \in 1..Len(tokens) : \E k \in 1..Len(PROGRAM_SUFFIXES) :
     EndsWith(tokens[t], PROGRAM_SUFFIXES[k])

Verdict(status, score, reason, kw) ==
  [status |-> status, score |-> score, reason |-> reason, kw |-> kw]

\* the decision thresholds (validator.py:123-128)
PassThreshold == 45

QuarantineThreshold == 30

\* variant: a score equal to the pass threshold does not pass
Decide_Strict(score) ==
  IF score > PassThreshold THEN Verdict("PASS", score, "Good score", <<>>)
  ELSE IF score >= QuarantineThreshold
         THEN Verdict("QUARANTINE", score, "Low confidence", <<>>)
  ELSE Verdict("FAIL", score, "Low score", <<>>)

\* validator.py:123-128 : the decision thresholds
Decide(score) ==
  IF score >= PassThreshold THEN Verdict("PASS", score, "Good score", <<>>)
  ELSE IF score >= QuarantineThreshold
         THEN Verdict("QUARANTINE", score, "Low confidence", <<>>)
  ELSE Verdict("FAIL", score, "Low score", <<>>)

\* validator.py:111-115 : the word count check
WordCount(score, tokens) ==
  IF Len(tokens) = 1 /\ score < 50 THEN score
  ELSE IF Len(tokens) >= 2 THEN score + 10
  ELSE score

\* validator.py:118-120 : the title case bonus
TitleBonus(score, name) == IF IsTitle(name) THEN score + 10 ELSE score

\* validator.py:91-120 : base 20, keyword and suffix boosts, word count, title case
HeuristicScore(name, tokens) ==
  TitleBonus(WordCount(20 + (IF HasKeyword(tokens, POSITIVE_KEYWORDS) THEN 20 ELSE 0)
                          + (IF HasSuffix(tokens) THEN 15 ELSE 0),
                       tokens),
             name)

\* variant: the digit ratio is checked before the length
ValidateTokens_DigitsFirst(name, name_norm, tokens) ==
  IF 10 * CountDigits(name_norm) > 4 * Len(name)
    THEN Verdict("FAIL", 10, "High digit ratio", <<>>)
  ELSE IF Len(name) < 4 THEN Verdict("FAIL", 0, "Too short", <<>>)
  ELSE IF Len(name) > 150 THEN Verdict("FAIL", 0, "Too long", <<>>)
  ELSE IF CountAlpha(name_norm) >= 6 /\ UniqueAlpha(name_norm) <= 2
         THEN Verdict("FAIL", 5, "Low character diversity", <<>>)
  ELSE IF HasKeyword(tokens, NEGATIVE_KEYWORDS)
         THEN Verdict("FAIL", 0, "Negative keyword", FirstKeyword(tokens, NEGATIVE_KEYWORDS))
  ELSE Decide(HeuristicScore(name, tokens))

\* validator.py:66-128 : the rejection checks in order, then the scored decision
ValidateTokens(name, name_norm, tokens) ==
  IF Len(name) < 4 THEN Verdict("FAIL", 0, "Too short", <<>>)
  ELSE IF Len(name) > 150 THEN Verdict("FAIL", 0, "Too long", <<>>)
  \* digit_count / len(name) > 0.4
  ELSE IF 10 * CountDigits(name_norm) > 4 * Len(name)
         THEN Verdict("FAIL", 10, "High digit ratio", <<>>)
  ELSE IF CountAlpha(name_norm) >= 6 /\ UniqueAlpha(name_norm) <= 2
         THEN Verdict("FAIL", 5, "Low character diversity", <<>>)
  ELSE IF HasKeyword(tokens, NEGATIVE_KEYWORDS)
         THEN Verdict("FAIL", 0, "Negative keyword", FirstKeyword(tokens, NEGATIVE_KEYWORDS))
  ELSE Decide(HeuristicScore(name, tokens))

\* validator.py:63-64 : name_norm and its tokens
ValidateNorm(name, name_norm) == ValidateTokens(name, name_norm, Tokenize(name_norm))

\* SemanticValidator.validate_program_name
validate_program_name(name) ==
  IF name = <<>> THEN Verdict("FAIL", 0, "Empty string", <<>>)
  ELSE ValidateNorm(name, NormalizeText(name))
(***************************************************************************)
(* Python dict helpers: a dict is a function whose domain is the set of    *)
(* keys present.  NoneS is None where a string is expected, NoneN is None  *)
(* where a number is expected, NoneRow is None where a PDF row is expected.*)
(***************************************************************************)
NoneS == <<"None">>

NoneN == 0 - 1

NoneRow == [none |-> TRUE]

EmptyDict == <<>>

\* d.get(k, default)
Get(d, k, default) == IF k \in DOMAIN d THEN d[k] ELSE default

\* d[k] = v
Put(d, k, v) == [x \in (DOMAIN d) \cup {k} |-> IF x = k THEN v ELSE d[x]]

\* (d.get(k) or ""), for a string-valued key
StrOrEmpty(d, k) == IF k \in DOMAIN d /\ d[k] # NoneS THEN d[k] ELSE <<>>

Max(a, b) == IF a >= b THEN a ELSE b

Min(a, b) == IF a <= b THEN a ELSE b

(***************************************************************************)
(* The inputs of the runs                                                  *)
(***************************************************************************)
Range(seq) == {seq[i] : i \in 1..Len(seq)}

\* slug and faculty_uid of the one faculty the engine is run on
Slug == <<"a","c","e">>

FacultyUid == <<"a","c","e","_","h","a","s","h">>

Informatica == <<"I","n","f","o","r","m","a","t","i","c","a">>

InformaticaDia == <<"I","n","f","o","r","m","a","t","i","c","a~">>

Automatica == <<"A","u","t","o","m","a","t","i","c","a">>

Contact == <<"C","o","n","t","a","c","t">>

LvlLicenta == <<"L","i","c","e","n","t","a">>

LvlMaster == <<"M","a","s","t","e","r">>

Calculatoare == <<"C","a","l","c","u","l","a","t","o","a","r","e">>

\* HTML-sourced program dicts, as the scraper and the tests build them
ProgInformatica ==
  [uid |-> <<"1","2","3">>, name |-> Informatica, level |-> LvlLicenta, domain |-> Calculatoare,
   entity_type |-> "program", evidence |-> EmptyDict]

ProgAutomatica ==
  [uid |-> <<"1","2","4">>, name |-> Automatica, level |-> LvlLicenta]

ProgAutomaticaMaster ==
  [uid |-> <<"1","2","5">>, name |-> Automatica, level |-> LvlMaster, source_url |-> <<"h","t","t","p",":","/","/","a","c","e","/","m","a","s","t","e","r","2","0","2","5">>]

\* the lists of programs a faculty starts with (the empty list is PDF-only mode)
ProgramLists ==
  { <<ProgInformatica>>, <<ProgAutomatica>>, <<ProgInformatica, ProgAutomaticaMaster>>, <<>> }

\* PDF rows: as the tests pass them (keys omitted) and as PDFParser emits them
RowWeak ==
  [program_name |-> Informatica, spots_budget |-> 100, spots_tax |-> 50, level |-> LvlLicenta]

RowStrong ==
  [program_name |-> Informatica, spots_budget |-> 150, spots_tax |-> 75, level |-> LvlLicenta]

RowDomain ==
  [program_name |-> Informatica, spots_budget |-> 120, spots_tax |-> 60, level |-> LvlLicenta,
   domain |-> Calculatoare]

RowAutomatica ==
  [program_name |-> Automatica, spots_budget |-> 50, spots_tax |-> 20, level |-> LvlLicenta]

RowContact ==
  [program_name |-> Contact, spots_budget |-> NoneN, spots_tax |-> NoneN, level |-> NoneS,
   domain |-> NoneS, raw_row |-> <<"[","'","C","o","n","t","a","c","t","'",","," ","N","o","n","e","]">>]

RowMaster ==
  [program_name |-> InformaticaDia, spots_budget |-> 30, spots_tax |-> 10, level |-> LvlMaster,
   domain |-> NoneS, raw_row |-> <<"I","n","f","o","r","m","a","t","i","c","a~"," ","3","0"," ","l","o","c"," ","b","u","g","e","t"," ","1","0"," ","l","o","c"," ","t","a","x">>, page |-> 2]

RowDia ==
  [program_name |-> InformaticaDia, spots_budget |-> 90, spots_tax |-> 45, level |-> LvlLicenta,
   domain |-> NoneS, raw_row |-> <<"I","n","f","o","r","m","a","t","i","c","a~"," ","9","0"," ","l","o","c"," ","b","u","g","e","t"," ","4","5"," ","l","o","c"," ","t","a","x">>, page |-> 1]

RowNoLevel ==
  [program_name |-> Informatica, spots_budget |-> 80, spots_tax |-> 40, level |-> NoneS,
   domain |-> Calculatoare, raw_row |-> <<"[","'","I","n","f","o","r","m","a","t","i","c","a","'",","," ","'","8","0","'",","," ","'","4","0","'","]">>]

\* the PDF sources of the faculty: url, link text, Stage-B content score, extracted rows
PdfSources ==
  { [url |-> <<"h","t","t","p",":","/","/","t","e","s","t",".","c","o","m","/","w","e","a","k",".","p","d","f">>, link_text |-> <<"W","e","a","k"," ","P","D","F">>, score |-> 10,
     rows |-> <<RowWeak>>],
    [url |-> <<"h","t","t","p",":","/","/","t","e","s","t",".","c","o","m","/","s","t","r","o","n","g",".","p","d","f">>, link_text |-> <<"S","t","r","o","n","g"," ","P","D","F">>, score |-> 12,
     rows |-> <<RowStrong>>],
    [url |-> <<"h","t","t","p",":","/","/","t","e","s","t",".","c","o","m","/","d","o","m","a","i","n",".","p","d","f">>, link_text |-> <<"D","o","m","a","i","n"," ","P","D","F">>, score |-> 10,
     rows |-> <<RowDomain>>],
    [url |-> <<"h","t","t","p",":","/","/","f","a","k","e",".","p","d","f">>, link_text |-> <<>>, score |-> 0,
     rows |-> <<RowAutomatica>>],
    [url |-> <<"h","t","t","p",":","/","/","t","e","s","t",".","c","o","m","/","m","i","x","e","d","2","0","2","4",".","p","d","f">>, link_text |-> <<"C","i","f","r","a"," ","2","0","2","4">>, score |-> 5,
     rows |-> <<RowContact, RowMaster, RowAutomatica>>],
    [url |-> <<"h","t","t","p",":","/","/","t","e","s","t",".","c","o","m","/","t","w","i","c","e",".","p","d","f">>, link_text |-> <<"L","o","c","u","r","i">>, score |-> 16,
     rows |-> <<RowWeak, RowDia>>],
    [url |-> <<"h","t","t","p",":","/","/","t","e","s","t",".","c","o","m","/","n","o","l","e","v","e","l",".","p","d","f">>, link_text |-> <<"T","a","b","e","l">>, score |-> 20,
     rows |-> <<RowNoLevel>>],
    [url |-> <<"h","t","t","p",":","/","/","t","e","s","t",".","c","o","m","/","m","e","n","u",".","p","d","f">>, link_text |-> <<"M","e","n","i","u">>, score |-> 0 - 5,
     rows |-> <<RowContact>>] }

\* words the candidate names of the validator runs are made of
Words ==
  { <<"D","r","e","p","t">>, <<"d","r","e","p","t">>, <<"I","n","f","o","r","m","a","t","i","c","a">>, <<"A","u","t","o","m","a","t","i","c","a">>, <<"P","s","i","h","o","l","o","g","i","e">>, <<"t","u","r","i","s","m">>,
    <<"C","o","n","t","a","c","t">>, <<"s","i">>, <<"R","o","m","a","n","a">>, <<"a","a","a","a","a","a">>, <<"2","0","2","4">>, <<"(","I","F","R",")">>, <<"S,","t","i","i","n","t,","e">>, <<"I","T">> }

\* longest name of the validator runs, in words
MaxTokens == 2

\* names that are not words joined by one space
ExtraNames ==
  { <<>>, <<"A","b">>, <<" "," ","D","r","e","p","t"," ">>, <<"0","7","2","1"," ","1","2","3"," ","4","5","6">>, <<"I","n","g","i","n","e","r","i","e","-","M","e","c","a","n","i","c","a~">>,
    <<"1","2","3">>, <<"a","b","c">>, <<"m","e","n","i","u"," ","1","2","3","4","5">>, <<"a","a","a","a","a","a"," ","1","2","3","4","5">>, [i \in 1..151 |-> "1"],
    [i \in 1..151 |-> "a"], [i \in 1..150 |-> IF i % 2 = 0 THEN "a" ELSE "B"] }

ValidatorNames ==
  ExtraNames \cup
  UNION { {JoinSpace(ws) : ws \in [1..n -> Words]} : n \in 1..MaxTokens }

\* inputs of the matcher runs
MatchPrograms ==
  { [name |-> Calculatoare] @@ lv @@ dm :
      lv \in { EmptyDict, [level |-> LvlLicenta], [level |-> LvlMaster],
               [level |-> <<"B","a","c","h","e","l","o","r">>], [level |-> <<"L","i","c","e","n","t,","a~">>] },
      dm \in { EmptyDict, [domain |-> <<"M","e","c","a","n","i","c">>] } }

MatchRowSet ==
  { [program_name |-> nm, level |-> lv] @@ dm :
      nm \in { <<"C","a","l","c",".">>, <<"D","r","e","p","t">> },
      lv \in { NoneS, LvlLicenta, LvlMaster },
      dm \in { [domain |-> NoneS], [domain |-> <<"M","e","c","a","n","i","c">>] } }

\* longest list of PDF rows of the matcher runs
MaxRows == 2

\* (token_set_ratio, partial_ratio) the library may return for two different names
FuzzOutcomes == { <<20, 29>>, <<30, 25>>, <<60, 40>>, <<70, 90>> }

\* percentages the library may return in the fusion runs
SimValues == {20, 80}

\* number of _fuse_data calls of a fusion run
MaxCalls == 3

\* number of sources fused in the order runs
MaxCands == 3

\* the tables rapidfuzz may be, over the given pairs of strings
FuzzTables(pairs, outcomes) ==
  { [ts |-> [p \in pairs |-> w[p][1]], pr |-> [p \in pairs |-> w[p][2]]] :
      w \in [pairs -> outcomes] }

\* the unordered pairs of different strings, one from each set
Unequal(as, bs) == {s \in {{a, b} : a \in as, b \in bs} : Cardinality(s) = 2}

(***************************************************************************)
(* rapidfuzz, as a table over the unordered pairs of distinct strings the  *)
(* run compares.  Two equal non-empty strings score 100.                   *)
(***************************************************************************)
VARIABLES
  fuzz,        \* [ts |-> table of fuzz.token_set_ratio, pr |-> table of fuzz.partial_ratio]
  call,        \* arguments of the function under test (pure-function specifications)
  ret,         \* its return value, NoneS before it has run
  programs,    \* the in-memory list of program dicts _fuse_data mutates
  store,       \* raw/<slug>/programs/<uid>.json      : <<slug, uid>> -> program dict
  quarantine,  \* raw/<slug>/quarantine/<sha>.json    : <<slug, name>> -> item
  clock,       \* datetime.now(): number of _fuse_data calls started so far
  last,        \* what the last _fuse_data call did (history, for the properties)
  twin,        \* a second copy of `programs`, fused in another order
  todoA,       \* sources still to fuse into `programs` (order specification)
  todoB,       \* sources still to fuse into `twin`     (order specification)
  run          \* enrich_run: the faculties being enriched and where each of them is

vars == <<fuzz, call, ret, programs, store, quarantine, clock, last, twin, todoA, todoB, run>>

token_set_ratio(a, b) == IF a = b THEN 100 ELSE fuzz.ts[{a, b}]

partial_ratio(a, b) == IF a = b THEN 100 ELSE fuzz.pr[{a, b}]

(***************************************************************************)
(* RomanianProgramMatcher  (enrichment/matcher.py)                         *)
(***************************************************************************)
\* matcher.py:23-31 : pattern \b<abbr>\b -> replacement, in dict order
abbrevs ==
  <<
    <<<<"c","a","l","c">>, <<"c","a","l","c","u","l","a","t","o","a","r","e">>>>,
    <<<<"e","n","g">>, <<"e","n","g","l","e","z","a">>>>,
    <<<<"i","n","g">>, <<"i","n","g","i","n","e","r","i","e">>>>,
    <<<<"a","u","t","o">>, <<"a","u","t","o","m","a","t","i","c","a">>>>,
    <<<<"i","n","f">>, <<"i","n","f","o","r","m","a","t","i","c","a">>>>,
    <<<<"m","a","s">>, <<"m","a","s","t","e","r">>>>,
    <<<<"l","i","c">>, <<"l","i","c","e","n","t","a">>>>
  >>

\* RomanianProgramMatcher._romanian_normalize
romanian_normalize(text) ==
  IF text = <<>> THEN <<>>
  ELSE LET low == Lower(text)
           asc == [i \in 1..Len(low) |-> StripDiacritic(low[i])]
       IN  JoinSpace(Split(BlankNonWord(asc)))

\* one re.sub(r'\b<abbr>\b', replacement, text, flags=re.IGNORECASE): every maximal
\* run of word characters equal to the abbreviation (any case) is replaced
RECURSIVE SubWord(_, _, _, _)
SubWord(s, i, cur, ab) ==
  LET flush == IF Lower(cur) = ab[1] THEN ab[2] ELSE cur
  IN  IF i > Len(s) THEN flush
      ELSE IF IsWordCh(s[i]) THEN SubWord(s, i + 1, Append(cur, s[i]), ab)
      ELSE flush \o <<s[i]>> \o SubWord(s, i + 1, <<>>, ab)

RECURSIVE ExpandFrom(_, _)
ExpandFrom(text, k) ==
  IF k > Len(abbrevs) THEN text
  ELSE ExpandFrom(SubWord(text, 1, <<>>, abbrevs[k]), k + 1)

\* RomanianProgramMatcher._expand_abbreviations
expand_abbreviations(text) == ExpandFrom(text, 1)

\* the normalized, abbreviation-expanded form of a name (matcher.py:51-52, 112-118)
ExpandedNorm(name) == expand_abbreviations(romanian_normalize(name))

\* every program name and row name of the runs
RunNames ==
  { p.name : p \in UNION {Range(ps) : ps \in ProgramLists} \cup MatchPrograms } \cup
  { r.program_name : r \in UNION {Range(src.rows) : src \in PdfSources} \cup MatchRowSet }

NormMemo == [name \in RunNames |-> ExpandedNorm(name)]

\* the same, computed once for the names of the run and looked up
NormName(name) == IF name \in DOMAIN NormMemo THEN NormMemo[name] ELSE ExpandedNorm(name)

Licenta == <<"l","i","c","e","n","t","a">>

LicentaDia == <<"l","i","c","e","n","t,","a~">>

Master == <<"m","a","s","t","e","r">>

\* thresholds of the matcher, in thousandths (percent for NameFloor)
NameFloor == 30

CandidateFloor == 10

AmbiguityMargin == 150

LowConfidence == 500

\* matcher.py:127-134 : the level signal
LevelScore(html_level, pdf_level) ==
  IF html_level # <<>> /\ pdf_level # <<>>
    THEN (IF Contains(pdf_level, html_level) \/ Contains(html_level, pdf_level)
            THEN 1000 ELSE 0)
    ELSE IF html_level = <<>> /\ pdf_level = <<>> THEN 500 ELSE 0

\* matcher.py:136-143 : the domain signal
DomainScore(html_domain, pdf_domain) ==
  IF html_domain # <<>> /\ pdf_domain # <<>> /\ partial_ratio(html_domain, pdf_domain) > 80
    THEN 1000 ELSE 0

\* matcher.py:145-153 : the name floor and the weighted sum; name_score in percent
WeightedSum(name_score, level_score, domain_score) ==
  IF name_score < NameFloor THEN 0
  ELSE Min(5 * name_score + (3 * level_score) \div 10 + (2 * domain_score) \div 10, 1000)

\* matcher.py:95-153 : the hard level filter, then the three signals
ScoreSignals(html_level, pdf_level, html_norm, pdf_norm, html_domain, pdf_domain) ==
  IF /\ pdf_level # <<>>
     /\ \/ /\ Contains(html_level, Licenta) \/ Contains(html_level, LicentaDia)
           /\ Contains(pdf_level, Master)
        \/ /\ Contains(html_level, Master)
           /\ Contains(pdf_level, Licenta) \/ Contains(pdf_level, LicentaDia)
    THEN 0
  ELSE WeightedSum(Max(token_set_ratio(html_norm, pdf_norm), partial_ratio(html_norm, pdf_norm)),
                   LevelScore(html_level, pdf_level),
                   DomainScore(html_domain, pdf_domain))

\* RomanianProgramMatcher._calculate_match_score, in thousandths; an absent
\* html_norm_precomputed is <<>>
calculate_match_score(html_prog, pdf_row, html_norm_precomputed) ==
  ScoreSignals(Lower(StrOrEmpty(html_prog, "level")),
               Lower(StrOrEmpty(pdf_row, "level")),
               IF html_norm_precomputed = <<>>
                 THEN NormName(StrOrEmpty(html_prog, "name"))
                 ELSE html_norm_precomputed,
               NormName(StrOrEmpty(pdf_row, "program_name")),
               Lower(StrOrEmpty(html_prog, "domain")),
               Lower(StrOrEmpty(pdf_row, "domain")))

\* candidates.sort(key=score, reverse=True): stable, the first of equal scores stays first
RECURSIVE SortDesc(_)
SortDesc(cands) ==
  IF cands = <<>> THEN <<>>
  ELSE LET top == CHOOSE i \in 1..Len(cands) :
                    /\ \A j \in 1..Len(cands) : cands[j].score <= cands[i].score
                    /\ \A j \in 1..(i - 1) : cands[j].score < cands[i].score
           rest == [j \in 1..(Len(cands) - 1) |-> IF j < top THEN cands[j] ELSE cands[j + 1]]
       IN  <<cands[top]>> \o SortDesc(rest)

\* variant: a small margin is reported before a low top score
MatchStatus_AmbiguousFirst(candidates) ==
  IF Len(candidates) > 1 /\ candidates[1].score - candidates[2].score < AmbiguityMargin
    THEN "ambiguous"
  ELSE IF candidates[1].score < LowConfidence THEN "low_confidence"
  ELSE "match"

\* matcher.py:70-79 : status = "match"; then "ambiguous" on a small margin; then
\* "low_confidence" on a low top score, which replaces what was set before
MatchStatus(candidates) ==
  LET best_score == candidates[1].score
      margin == IF Len(candidates) > 1 /\ best_score - candidates[2].score < AmbiguityMargin
                  THEN "ambiguous" ELSE "match"
  IN  IF best_score < LowConfidence THEN "low_confidence" ELSE margin

\* matcher.py:56-60 : every row with its score
ScoreRows(html_prog, pdf_rows, html_norm) ==
  [i \in 1..Len(pdf_rows) |->
     [score |-> calculate_match_score(html_prog, pdf_rows[i], html_norm), row |-> pdf_rows[i]]]

\* matcher.py:65-85 : the result built from the sorted candidates
BestOf(html_prog, candidates) ==
  IF candidates = <<>>
    THEN [program |-> html_prog, match |-> NoneRow, score |-> 0, status |-> "no_match"]
    ELSE [program |-> html_prog, match |-> candidates[1].row,
          score |-> candidates[1].score, status |-> MatchStatus(candidates)]

\* RomanianProgramMatcher._find_best_match
find_best_match(html_prog, pdf_rows) ==
  BestOf(html_prog,
         SortDesc(SelectSeq(ScoreRows(html_prog, pdf_rows,
                                      NormName(StrOrEmpty(html_prog, "name"))),
                            LAMBDA c : c.score > CandidateFloor)))

\* RomanianProgramMatcher.match_all
match_all(html_programs, pdf_rows) ==
  [i \in 1..Len(html_programs) |-> find_best_match(html_programs[i], pdf_rows)]

(***************************************************************************)
(* DataFusionEngine  (enrichment/matcher.py)                               *)
(*                                                                         *)
(* Not modelled: text_for_embedding and career_paths (display text         *)
(* formatted from the fields below), logging, and the in-place clean-up of *)
(* a row name that contains "locuri" (no name in the model contains it).   *)
(* grades_map is None or empty here; fuse_data_grades models the others.   *)
(***************************************************************************)
\* hashlib.sha256(text.encode()).hexdigest(): injective on the texts of a run
Sha256(text) == <<"sha256">> \o text

DigitVal ==
  ("0" :> 0) @@ ("1" :> 1) @@ ("2" :> 2) @@ ("3" :> 3) @@ ("4" :> 4) @@
  ("5" :> 5) @@ ("6" :> 6) @@ ("7" :> 7) @@ ("8" :> 8) @@ ("9" :> 9)

\* re.search(r"202[0-9]", text): the leftmost match as an int, 0 when there is none
SearchYear(text) ==
  LET hits == {i \in 1..(Len(text) - 3) :
                 /\ SubSeq(text, i, i + 2) = <<"2", "0", "2">>
                 /\ IsDigit(text[i + 3])}
      first == CHOOSE i \in hits : \A j \in hits : i <= j
  IN  IF hits = {} THEN 0 ELSE 2020 + DigitVal[text[first + 3]]

\* self.admission_year (matcher.py:211)
AdmissionYear == 2026

\* DataFusionEngine._generate_program_id
generate_program_id(slug, name) == Sha256(slug \o <<"|">> \o romanian_normalize(name))

\* DataFusionEngine._infer_admission_year
infer_admission_year(source_url, content_text) ==
  IF SearchYear(source_url) # 0 THEN SearchYear(source_url)
  ELSE IF content_text # <<>> /\ SearchYear(content_text) # 0 THEN SearchYear(content_text)
  ELSE AdmissionYear

\* variant: weights 0.6 and 0.6, which do not sum to 1
calculate_likelihood_OverWeighted(text_match_score, source_priority) ==
  LET norm_match == IF text_match_score > 1000 THEN text_match_score \div 100
                    ELSE Min(Max(text_match_score, 0), 1000)
  IN  norm_match * 6 + source_priority * 600

\* DataFusionEngine._calculate_likelihood: text_match_score in thousandths,
\* source_priority in tenths, result in 1/10000
calculate_likelihood(text_match_score, source_priority) ==
  LET norm_match == IF text_match_score > 1000 THEN text_match_score \div 100
                    ELSE Min(Max(text_match_score, 0), 1000)
  IN  norm_match * 6 + source_priority * 400

\* DataFusionEngine._normalize_level
normalize_level(text) ==
  LET t == Lower(text)
  IN  IF text = NoneS \/ text = <<>> THEN <<"U","n","k","n","o","w","n">>
      ELSE IF Contains(t, Master) THEN <<"M","a","s","t","e","r">>
      ELSE IF Contains(t, <<"l","i","c","e","n","t">>)
              \/ Contains(t, <<"l","i","c","e","n","t,">>)
              \/ Contains(t, <<"b","a","c","h","e","l","o","r">>)
             THEN <<"B","a","c","h","e","l","o","r">>
      ELSE IF Contains(t, <<"d","o","c","t","o","r">>) \/ Contains(t, <<"p","h","d">>)
             THEN <<"P","h","D">>
      ELSE <<"U","n","k","n","o","w","n">>

\* the match-acceptance threshold (matcher.py:549), in thousandths
AcceptThreshold == 650

\* best_source_score of a record that has none (matcher.py:586), in hundredths
NoSourceScore == 0 - 99900

\* not prog.get("program_id")
MissingId(prog) == "program_id" \notin DOMAIN prog \/ prog.program_id \in {NoneS, <<>>}

\* not prog.get("admission_year")
MissingYear(prog) == "admission_year" \notin DOMAIN prog \/ prog.admission_year \in {NoneN, 0}

\* text[:100]
Snippet(text) == SubSeq(text, 1, Min(Len(text), 100))

\* variant: every faculty's records are written into one directory
save_program_OneDirectory(st, slug, program) == Put(st, <<Slug, program.uid>>, program)

\* DataFusionEngine._save_program: raw/<slug>/programs/<uid>.json is overwritten
save_program(st, slug, program) == Put(st, <<slug, program.uid>>, program)

\* DataFusionEngine._save_quarantine
save_quarantine(q, slug, row, val_res) ==
  Put(q, <<slug, Sha256(row.program_name)>>,
      [name |-> row.program_name, reason |-> val_res.reason,
       score |-> val_res.score, raw_row |-> row])

VerdictMemo ==
  [name \in {r.program_name : r \in UNION {Range(src.rows) : src \in PdfSources}} |->
     validate_program_name(name)]

\* self.validator.validate_program_name(name): the verdicts of the names of the run's
\* rows are computed once and looked up
Validate(name) ==
  IF name \in DOMAIN VerdictMemo THEN VerdictMemo[name] ELSE validate_program_name(name)

\* matcher.py:447-464 : the quarantine store after the validation loop over rows[k..]
RECURSIVE QuarantineRows(_, _, _, _)
QuarantineRows(q, slug, rows, k) ==
  IF k > Len(rows) THEN q
  ELSE LET val_res == Validate(Get(rows[k], "program_name", <<>>))
       IN  QuarantineRows(IF val_res.status = "QUARANTINE"
                            THEN save_quarantine(q, slug, rows[k], val_res) ELSE q,
                          slug, rows, k + 1)

\* variant: only FAIL rows are left out
FilterRows_KeepQuarantine(rows) ==
  SelectSeq(rows, LAMBDA row :
     Validate(Get(row, "program_name", <<>>)).status # "FAIL")

\* matcher.py:447-464 : filtered_rows, the rows whose name validates PASS
FilterRows(rows) ==
  SelectSeq(rows, LAMBDA row :
     Validate(Get(row, "program_name", <<>>)).status = "PASS")

\* matcher.py:473-525 : the record synthesized from one PDF row (PDF-only mode)
SynthesizeProgram(slug, row, pdf_url, faculty_uid, now) ==
  [uid |-> Sha256(slug \o <<"|">> \o row.program_name),
   program_id |-> generate_program_id(slug, row.program_name),
   name |-> row.program_name,
   spots_budget |-> row.spots_budget,
   spots_tax |-> row.spots_tax,
   language |-> "ro",
   level |-> normalize_level(Get(row, "level", <<"M","a","s","t","e","r">>)),
   entity_type |-> "program",
   source_type |-> "pdf_only",
   faculty_uid |-> faculty_uid,
   faculty_slug |-> slug,
   scraped_at |-> now,
   source_url |-> pdf_url,
   evidence |-> [spots |-> <<[source |-> pdf_url,
                              value |-> [budget |-> row.spots_budget, tax |-> row.spots_tax],
                              likelihood_score |-> calculate_likelihood(1000, 8),
                              match_score |-> 1000,
                              page |-> Get(row, "page", 1),
                              snippet |-> Snippet(Get(row, "raw_row", <<>>)),
                              timestamp |-> now]>>],
   metadata |-> [original_pdf |-> pdf_url, match_status |-> "new_from_pdf"],
   admission_year |-> infer_admission_year(pdf_url, <<>>)]

\* variant: only a match of status "match" is fused
Accepted_MatchOnly(res) ==
  res.match # NoneRow /\ res.score > AcceptThreshold /\ res.status = "match"

\* matcher.py:549 : if match_res["match"] and match_res["score"] > 0.65
Accepted(res) == res.match # NoneRow /\ res.score > AcceptThreshold

\* matcher.py:556-560 : source priority in tenths, from the content score
SourcePriority(likelihood_score_base) ==
  IF likelihood_score_base > 10 THEN 9
  ELSE IF likelihood_score_base > 0 THEN 7
  ELSE 5

\* matcher.py:571-581
EvidenceEntry(res, src, now) ==
  [source |-> src.url,
   source_name |-> src.link_text,
   value |-> [budget |-> Get(res.match, "spots_budget", 0),
              tax |-> Get(res.match, "spots_tax", 0)],
   score |-> src.score,
   match_score |-> res.score,
   likelihood_score |-> calculate_likelihood(res.score, SourcePriority(src.score)),
   page |-> Get(res.match, "page", 1),
   snippet |-> Snippet(Get(res.match, "raw_row", <<>>)),
   timestamp |-> now]

\* variant: the log keeps the latest entry only
AppendEvidence_Overwrite(prog, entry) ==
  Put(prog, "evidence", Put(Get(prog, "evidence", EmptyDict), "spots", <<entry>>))

\* matcher.py:568-582 : the entry is appended to prog["evidence"]["spots"]
AppendEvidence(prog, entry) ==
  LET evidence == Get(prog, "evidence", EmptyDict)
      spots == Get(evidence, "spots", <<>>)
  IN  Put(prog, "evidence", Put(evidence, "spots", Append(spots, entry)))

\* variant: the match score does not count
TotalScore_ContentOnly(likelihood_score_base, score) == likelihood_score_base * 100

\* matcher.py:587 : content score + 10 * match score, in hundredths
TotalScore(likelihood_score_base, score) == likelihood_score_base * 100 + score

\* matcher.py:586
CurrentScore(prog) == Get(Get(prog, "metadata", EmptyDict), "best_source_score", NoSourceScore)

\* variant: an equal total also replaces the materialized values
Wins_OnTie(this_total_score, current_score) == this_total_score >= current_score

\* matcher.py:589 : if this_total_score > current_score
Wins(this_total_score, current_score) == this_total_score > current_score

\* matcher.py:584-599 : overwrite the materialized values when this source scores higher
Arbitrate(prog, res, src) ==
  LET this_total_score == TotalScore(src.score, res.score)
      md0 == Get(prog, "metadata", EmptyDict)
      md1 == Put(md0, "best_source_score", this_total_score)
      md2 == Put(md1, "pdf_match_score", res.score)
      md3 == Put(md2, "pdf_match_name", res.match.program_name)
      md4 == Put(md3, "pdf_source", src.url)
      md5 == Put(md4, "match_status", res.status)
      p1 == Put(prog, "spots_budget", Get(res.match, "spots_budget", 0))
      p2 == Put(p1, "spots_tax", Get(res.match, "spots_tax", 0))
      p3 == Put(p2, "metadata", md5)
  IN  IF Wins(this_total_score, CurrentScore(prog))
        THEN Put(p3, "accuracy_confidence",
                 calculate_likelihood(res.score, SourcePriority(src.score)))
        ELSE prog

\* matcher.py:539-547 : ids, admission year and faculty identity are filled in
EnsureIds(prog, slug, faculty_uid) ==
  LET p1 == IF MissingId(prog)
              THEN Put(prog, "program_id", generate_program_id(slug, prog.name)) ELSE prog
      p2 == IF MissingYear(p1)
              THEN Put(p1, "admission_year",
                       infer_admission_year(StrOrEmpty(p1, "source_url"),
                                            StrOrEmpty(p1, "name")))
              ELSE p1
  IN  Put(Put(p2, "faculty_uid", faculty_uid), "faculty_slug", slug)

\* matcher.py:531-616 : one iteration of the loop over the match results
FuseRecord(res, src, slug, faculty_uid, now) ==
  LET prog == EnsureIds(res.program, slug, faculty_uid)
  IN  IF Accepted(res)
        THEN Arbitrate(AppendEvidence(prog, EvidenceEntry(res, src, now)), res, src)
        ELSE prog

RECURSIVE SaveAll(_, _, _, _)
SaveAll(st, slug, progs, k) ==
  IF k > Len(progs) THEN st
  ELSE SaveAll(save_program(st, slug, progs[k]), slug, progs, k + 1)

\* matcher.py:612-616 : the state after the loop over the match results
SaveFused(st, q, slug, fused, results) ==
  [programs |-> fused, store |-> SaveAll(st, slug, fused, 1), quarantine |-> q,
   mode |-> "html", results |-> results]

\* matcher.py:531-616 : every record goes through the loop and is saved
FuseMatched(progs, st, q, slug, src, faculty_uid, now, results) ==
  SaveFused(st, q, slug,
            [i \in 1..Len(progs) |-> FuseRecord(results[i], src, slug, faculty_uid, now)],
            results)

\* matcher.py:470-526 : no HTML records, one record is synthesized and saved per row
FusePdfOnly(st, q, slug, src, faculty_uid, now, filtered_rows) ==
  [programs |-> <<>>,
   store |-> SaveAll(st, slug,
                     [i \in 1..Len(filtered_rows) |->
                        SynthesizeProgram(slug, filtered_rows[i], src.url, faculty_uid, now)],
                     1),
   quarantine |-> q, mode |-> "pdf_only", results |-> <<>>]

\* matcher.py:466-529 : the three ways the call goes on after validation
FuseFiltered(progs, st, q, slug, src, faculty_uid, now, filtered_rows) ==
  IF filtered_rows = <<>>
    THEN [programs |-> progs, store |-> st, quarantine |-> q,
          mode |-> "no_rows", results |-> <<>>]
  ELSE IF progs = <<>>
    THEN FusePdfOnly(st, q, slug, src, faculty_uid, now, filtered_rows)
  ELSE FuseMatched(progs, st, q, slug, src, faculty_uid, now,
                   match_all(progs, filtered_rows))

\* DataFusionEngine._fuse_data: the engine state after the call
\*   progs : the list passed as `programs`;  st, q : the two stores on disk
fuse_data(progs, st, q, slug, src, faculty_uid, now) ==
  FuseFiltered(progs, st, QuarantineRows(q, slug, src.rows, 1), slug, src, faculty_uid, now,
               FilterRows(src.rows))

(***************************************************************************)
(* Specification Spec: a faculty's records under a sequence of _fuse_data  *)
(* calls, one per PDF source, as _enrich_faculty issues them.              *)
(***************************************************************************)
NotRun == [done |-> FALSE]

NoCall == [mode |-> "none"]

NoRun == [pc |-> "none"]

\* the names of the rows of any source that validate PASS, normalized for matching
PassingRowNames ==
  { NormName(r.program_name) :
      r \in { row \in UNION {Range(src.rows) : src \in PdfSources} :
                Validate(row.program_name).status = "PASS" } }

ProgramNames(progs) == { NormName(p.name) : p \in Range(progs) }

\* what the history variable keeps of one call
CallRecord(src, out) ==
  [mode |-> out.mode,
   url |-> src.url,
   score |-> src.score,
   verdicts |-> [i \in 1..Len(src.rows) |->
                   Validate(Get(src.rows[i], "program_name", <<>>))],
   results |-> [i \in 1..Len(out.results) |->
                  [match |-> out.results[i].match, score |-> out.results[i].score,
                   status |-> out.results[i].status]]]

Init ==
  /\ programs \in ProgramLists
  /\ fuzz \in FuzzTables(Unequal(ProgramNames(programs), PassingRowNames),
                         SimValues \X SimValues)
  /\ store = SaveAll(EmptyDict, Slug, programs, 1)
  /\ quarantine = EmptyDict
  /\ clock = 0
  /\ last = NoCall
  /\ call = NoCall
  /\ ret = NotRun
  /\ twin = <<>>
  /\ todoA = <<>>
  /\ todoB = <<>>
  /\ run = NoRun

\* the records, the files on disk and the history once the call has returned
Returned(src, out) ==
  /\ programs' = out.programs
  /\ store' = out.store
  /\ quarantine' = out.quarantine
  /\ last' = CallRecord(src, out)

\* one call self._fuse_data(slug, programs, rows, url, faculty_uid, None, score, link_text)
FuseData(src) ==
  /\ clock < MaxCalls
  /\ Returned(src, fuse_data(programs, store, quarantine, Slug, src, FacultyUid, clock + 1))
  /\ clock' = clock + 1
  /\ UNCHANGED <<fuzz, call, ret, twin, todoA, todoB, run>>

Next == \E src \in PdfSources : FuseData(src)

Spec == Init /\ [][Next]_vars

(***************************************************************************)
(* Specification SpecOrder: the same set of accepted sources fused into    *)
(* two copies of one un-fused record, in two orders.                       *)
(***************************************************************************)
\* the match _fuse_data finds for the record in a source
MatchIn(prog, src) == find_best_match(prog, FilterRows(src.rows))

\* sources whose best match for the record is accepted
AcceptedSources(prog) ==
  { src \in PdfSources : FilterRows(src.rows) # <<>> /\ Accepted(MatchIn(prog, src)) }

\* sets of candidates with pairwise distinct (content_score, match_score)
CandidateSets(prog) ==
  { S \in SUBSET AcceptedSources(prog) :
      /\ Cardinality(S) >= 2
      /\ Cardinality(S) <= MaxCands
      /\ \A a \in S : \A b \in S :
           a # b => <<a.score, MatchIn(prog, a).score>> # <<b.score, MatchIn(prog, b).score>> }

Orderings(S) ==
  { p \in [1..Cardinality(S) -> S] : \A i, j \in 1..Cardinality(S) : p[i] = p[j] => i = j }

InitOrder ==
  /\ programs = <<ProgInformatica>>
  /\ twin = programs
  /\ fuzz = [ts |-> EmptyDict, pr |-> EmptyDict]
  /\ \E S \in CandidateSets(ProgInformatica) :
        /\ todoA \in Orderings(S)
        /\ todoB \in Orderings(S)
  /\ store = SaveAll(EmptyDict, Slug, programs, 1)
  /\ quarantine = EmptyDict
  /\ clock = 0
  /\ last = NoCall
  /\ call = NoCall
  /\ ret = NotRun
  /\ run = NoRun

\* the next source of each order is fused into its copy
FuseBothOrders ==
  /\ todoA # <<>>
  /\ Returned(Head(todoA),
              fuse_data(programs, store, quarantine, Slug, Head(todoA), FacultyUid, clock + 1))
  /\ twin' = fuse_data(twin, EmptyDict, EmptyDict, Slug, Head(todoB), FacultyUid,
                       clock + 1).programs
  /\ todoA' = Tail(todoA)
  /\ todoB' = Tail(todoB)
  /\ clock' = clock + 1
  /\ UNCHANGED <<fuzz, call, ret, run>>

NextOrder == FuseBothOrders

SpecOrder == InitOrder /\ [][NextOrder]_vars

(***************************************************************************)
(* Specification SpecValidator: validate_program_name on one name.         *)
(***************************************************************************)
InitValidator ==
  /\ \E n \in ValidatorNames : call = [op |-> "validate_program_name", name |-> n]
  /\ ret = NotRun
  /\ fuzz = [ts |-> EmptyDict, pr |-> EmptyDict]
  /\ programs = <<>>
  /\ store = EmptyDict
  /\ quarantine = EmptyDict
  /\ clock = 0
  /\ last = NoCall
  /\ twin = <<>>
  /\ todoA = <<>>
  /\ todoB = <<>>
  /\ run = NoRun

ValidateName ==
  /\ call.op = "validate_program_name"
  /\ ~ret.done
  /\ ret' = [done |-> TRUE, value |-> validate_program_name(call.name)]
  /\ UNCHANGED <<fuzz, call, programs, store, quarantine, clock, last, twin, todoA, todoB, run>>

NextValidator == ValidateName

SpecValidator == InitValidator /\ [][NextValidator]_vars

(***************************************************************************)
(* Specification SpecMatch: _find_best_match of one program in a list of   *)
(* PDF rows, for every table rapidfuzz may be.                             *)
(***************************************************************************)
RowLists == UNION { [1..n -> MatchRowSet] : n \in 1..MaxRows }

InitMatch ==
  /\ \E p \in MatchPrograms : \E rows \in RowLists :
        call = [op |-> "find_best_match", html_prog |-> p, pdf_rows |-> rows]
  /\ fuzz \in FuzzTables(Unequal({NormName(Calculatoare)},
                                 {NormName(r.program_name) : r \in MatchRowSet}),
                         FuzzOutcomes)
  /\ ret = NotRun
  /\ programs = <<>>
  /\ store = EmptyDict
  /\ quarantine = EmptyDict
  /\ clock = 0
  /\ last = NoCall
  /\ twin = <<>>
  /\ todoA = <<>>
  /\ todoB = <<>>
  /\ run = NoRun

FindBestMatch ==
  /\ call.op = "find_best_match"
  /\ ~ret.done
  /\ ret' = [done |-> TRUE,
             value |-> find_best_match(call.html_prog, call.pdf_rows),
             scores |-> [i \in 1..Len(call.pdf_rows) |->
                           calculate_match_score(call.html_prog, call.pdf_rows[i], <<>>)]]
  /\ UNCHANGED <<fuzz, call, programs, store, quarantine, clock, last, twin, todoA, todoB, run>>

NextMatch == FindBestMatch

SpecMatch == InitMatch /\ [][NextMatch]_vars

(***************************************************************************)
(* BoilerplateRejector.clean_text (boilerplate.py): the lines of a page    *)
(* are a sequence of strings, a page is a string with "\n" between lines.  *)
(***************************************************************************)
\* threshold_ratio, in tenths
ThresholdTenths == 6

\* str.splitlines() for "\n" line ends
RECURSIVE SplitLinesFrom(_, _, _)
SplitLinesFrom(s, i, cur) ==
  IF i > Len(s)
    THEN IF cur = <<>> THEN <<>> ELSE <<cur>>
    ELSE IF s[i] = "\n"
           THEN <<cur>> \o SplitLinesFrom(s, i + 1, <<>>)
           ELSE SplitLinesFrom(s, i + 1, Append(cur, s[i]))

SplitLines(s) == SplitLinesFrom(s, 1, <<>>)

\* "\n".join(lines)
RECURSIVE JoinNewline(_)
JoinNewline(lines) ==
  IF lines = <<>> THEN <<>>
  ELSE IF Len(lines) = 1 THEN lines[1]
  ELSE lines[1] \o <<"\n">> \o JoinNewline(Tail(lines))

\* [l.strip() for l in lines]
StripAll(lines) == [i \in 1..Len(lines) |-> Strip(lines[i])]

\* [l.strip() for l in p.splitlines() if l.strip()]
PageLines(p) == SelectSeq(StripAll(SplitLines(p)), LAMBDA l : l # <<>>)

\* Counter over all_lines, to which every page adds set(lines): the value of one line
PagesContaining_Occurrences(line, page_lines) ==
  LET RECURSIVE Sum(_)
      Sum(i) == IF i = 0 THEN 0
                ELSE Sum(i - 1) + Len(SelectSeq(page_lines[i], LAMBDA l : l = line))
  IN Sum(Len(page_lines))

PagesContaining(line, page_lines) ==
  Cardinality({ i \in 1..Len(page_lines) : line \in Range(page_lines[i]) })

\* count / num_pages > self.threshold_ratio
BoilerplateLines(page_lines) ==
  { line \in UNION { Range(page_lines[i]) : i \in 1..Len(page_lines) } :
      10 * PagesContaining(line, page_lines) > ThresholdTenths * Len(page_lines) }

\* the reconstruction loop
CleanedPages(page_lines, boilerplate_lines) ==
  [i \in 1..Len(page_lines) |->
     JoinNewline(SelectSeq(page_lines[i], LAMBDA l : l \notin boilerplate_lines))]

CleanLines(page_lines) == JoinNewline(CleanedPages(page_lines, BoilerplateLines(page_lines)))

clean_text(pages) ==
  IF pages = <<>> THEN <<>>
  ELSE IF Len(pages) = 1 THEN pages[1]
  ELSE CleanLines([i \in 1..Len(pages) |-> PageLines(pages[i])])

(***************************************************************************)
(* Specification SpecBoilerplate: clean_text on the pages of one document. *)
(***************************************************************************)
MaxPages == 5

\* page texts: a header, with and without blanks around it, blank lines, a
\* line repeated on one page, a page without the header
PageTexts ==
  { <<"H", "\n", "x">>,
    <<" ", "H", " ", "\n", "\n", "y">>,
    <<"x", "\n", "x", "\n", "y", "\n">>,
    <<"z">>,
    <<"y", " ", "\n", "H">> }

InitBoilerplate ==
  /\ \E n \in 0..MaxPages : \E ps \in [1..n -> PageTexts] :
        call = [op |-> "clean_text", pages |-> ps]
  /\ ret = NotRun
  /\ fuzz = [ts |-> EmptyDict, pr |-> EmptyDict]
  /\ programs = <<>>
  /\ store = EmptyDict
  /\ quarantine = EmptyDict
  /\ clock = 0
  /\ last = NoCall
  /\ twin = <<>>
  /\ todoA = <<>>
  /\ todoB = <<>>
  /\ run = NoRun

CleanText ==
  /\ call.op = "clean_text"
  /\ ~ret.done
  /\ ret' = [done |-> TRUE, value |-> clean_text(call.pages)]
  /\ UNCHANGED <<fuzz, call, programs, store, quarantine, clock, last, twin, todoA, todoB, run>>

NextBoilerplate == CleanText

SpecBoilerplate == InitBoilerplate /\ [][NextBoilerplate]_vars

(***************************************************************************)
(* DataFusionEngine.enrich_run and _enrich_faculty (matcher.py:237-392),   *)
(* PDFTruthRanker.rank_candidates (pdf_ranker.py:26-70).  A queue entry is *)
(* a dict; the PDF behind a local path is what Stage B and the parser make *)
(* of it.  An exception that leaves a function is the outcome "raised".    *)
(***************************************************************************)
\* str(n) of a natural number
DigitChar == <<"0", "1", "2", "3", "4", "5", "6", "7", "8", "9">>

RECURSIVE Str(_)
Str(n) == IF n < 10 THEN <<DigitChar[n + 1]>> ELSE Str(n \div 10) \o <<DigitChar[(n % 10) + 1]>>

\* any(k in text for k in keywords)
AnyIn(keywords, text) == \E k \in keywords : Contains(text, k)

\* self.doc_types
DocTypes ==
  [SPOTS |-> {<<"c","i","f","r","a">>, <<"l","o","c","u","r","i">>, <<"c","a","p","a","c","i","t","a","t","e">>},
   RESULTS |-> {<<"r","e","z","u","l","t","a","t","e">>, <<"m","e","d","i","i">>, <<"a","d","m","i","s">>, <<"r","e","s","p","i","n","s">>, <<"i","e","r","a","r","h","i","e">>},
   GUIDE |-> {<<"g","h","i","d">>, <<"m","e","t","o","d","o","l","o","g","i","e">>, <<"r","e","g","u","l","a","m","e","n","t">>},
   EXAM |-> {<<"t","e","m","a","t","i","c","a">>, <<"s","u","b","i","e","c","t","e">>, <<"g","r","i","l","e">>, <<"d","i","s","c","i","p","l","i","n","a">>},
   CALENDAR |-> {<<"c","a","l","e","n","d","a","r">>, <<"p","r","o","g","r","a","m","a","r","e">>, <<"d","a","t","a">>, <<"p","e","r","i","o","a","d","a">>}]

\* 1. Year Relevance, for target_type "SPOTS"
YearScore(text, url) ==
  IF Contains(text, Str(AdmissionYear)) \/ Contains(url, Str(AdmissionYear)) THEN 10
  ELSE IF Contains(text, Str(AdmissionYear - 1)) \/ Contains(url, Str(AdmissionYear - 1)) THEN 5
  ELSE 0

\* the score rank_candidates gives lower-cased link text and url, target_type "SPOTS"
StageAOf(text, url) ==
  YearScore(text, url)
  + (IF AnyIn(DocTypes.SPOTS, text) \/ AnyIn(DocTypes.SPOTS, url) THEN 15 ELSE 0)
  - (IF AnyIn(DocTypes.GUIDE \cup DocTypes.EXAM \cup DocTypes.RESULTS, text) THEN 10 ELSE 0)
  - (IF AnyIn(DocTypes.CALENDAR, text) THEN 20 ELSE 0)

\* (cand.get("pdf_url") or cand.get("url") or "")
UrlOf(cand) ==
  IF StrOrEmpty(cand, "pdf_url") # <<>> THEN cand.pdf_url ELSE StrOrEmpty(cand, "url")

StageAScore(cand) == StageAOf(Lower(StrOrEmpty(cand, "link_text")), Lower(UrlOf(cand)))

\* sorted(candidates, key=stage_a_score, reverse=True): stable
RECURSIVE SortByStageA(_)
SortByStageA(cands) ==
  IF cands = <<>> THEN <<>>
  ELSE LET top == CHOOSE i \in 1..Len(cands) :
                    /\ \A j \in 1..Len(cands) : cands[j].stage_a_score <= cands[i].stage_a_score
                    /\ \A j \in 1..(i - 1) : cands[j].stage_a_score < cands[i].stage_a_score
       IN  <<cands[top]>>
             \o SortByStageA([j \in 1..(Len(cands) - 1) |->
                                IF j < top THEN cands[j] ELSE cands[j + 1]])

\* PDFTruthRanker.rank_candidates
rank_candidates(candidates) ==
  SortByStageA([i \in 1..Len(candidates) |->
                  Put(candidates[i], "stage_a_score", StageAScore(candidates[i]))])

\* DataFusionEngine._identify_spots_pdf
identify_spots_pdf(pdf_queue) ==
  rank_candidates(SelectSeq(pdf_queue, LAMBDA p :
                    StrOrEmpty(p, "link_text") # <<>> /\ UrlOf(p) # <<>>))

\* PDF rows the sanity filter of _enrich_faculty removes
Drept == <<"D","r","e","p","t">>

RowShort ==
  [program_name |-> Drept, spots_budget |-> 40, spots_tax |-> 10, level |-> LvlLicenta,
   domain |-> NoneS, raw_row |-> <<"[","'","D","r","e","p","t","'",","," ","'","4","0","'",","," ","'","1","0","'","]">>]

RowCopie ==
  [program_name |-> <<"C","o","p","i","e"," ","l","e","g","a","l","i","z","a","t","a">>, spots_budget |-> NoneN, spots_tax |-> NoneN,
   level |-> NoneS, domain |-> NoneS, raw_row |-> <<"[","'","C","o","p","i","e"," ","l","e","g","a","l","i","z","a","t","a","'","]">>]

\* the PDFs under raw/<slug>/pdfs: what evaluate_content scores the file (an error
\* inside it leaves content_score 0.0) and what extract_spots returns or raises
Pdfs ==
  (<<"/","p","d","f","s","/","s","t","r","o","n","g",".","p","d","f">> :> [content_score |-> 12, extract |-> "rows", rows |-> <<RowStrong>>]) @@
  (<<"/","p","d","f","s","/","l","o","c","u","r","i",".","p","d","f">> :> [content_score |-> 16, extract |-> "rows", rows |-> <<RowWeak, RowDia>>]) @@
  (<<"/","p","d","f","s","/","s","c","a","n",".","p","d","f">> :> [content_score |-> 0 - 10, extract |-> "rows", rows |-> <<RowWeak>>]) @@
  (<<"/","p","d","f","s","/","b","a","d",".","p","d","f">> :> [content_score |-> 0, extract |-> "raises", rows |-> <<>>]) @@
  (<<"/","p","d","f","s","/","e","m","p","t","y",".","p","d","f">> :> [content_score |-> 5, extract |-> "rows", rows |-> <<>>]) @@
  (<<"/","p","d","f","s","/","j","u","n","k",".","p","d","f">> :>
     [content_score |-> 5, extract |-> "rows", rows |-> <<RowShort, RowCopie, RowWeak>>]) @@
  (<<"/","p","d","f","s","/","m","e","n","u",".","p","d","f">> :> [content_score |-> 0 - 5, extract |-> "rows", rows |-> <<RowContact>>]) @@
  (<<"/","p","d","f","s","/","m","i","x","e","d",".","p","d","f">> :>
     [content_score |-> 5, extract |-> "rows", rows |-> <<RowContact, RowMaster, RowAutomatica>>])

\* entries of pdf_queue.json as the scraper writes them: "local_path" is set for
\* the downloaded candidates only (scraper_base.py:241-259)
QueueEntries ==
  { [link_text |-> <<"S","t","r","o","n","g"," ","P","D","F">>, pdf_url |-> <<"h","t","t","p",":","/","/","t","e","s","t",".","c","o","m","/","s","t","r","o","n","g",".","p","d","f">>,
     local_path |-> <<"/","p","d","f","s","/","s","t","r","o","n","g",".","p","d","f">>],
    [link_text |-> <<"L","o","c","u","r","i">>, pdf_url |-> <<"h","t","t","p",":","/","/","t","e","s","t",".","c","o","m","/","l","o","c","u","r","i",".","p","d","f">>,
     local_path |-> <<"/","p","d","f","s","/","l","o","c","u","r","i",".","p","d","f">>],
    [link_text |-> <<"S","c","a","n">>, pdf_url |-> <<"h","t","t","p",":","/","/","t","e","s","t",".","c","o","m","/","s","c","a","n",".","p","d","f">>,
     local_path |-> <<"/","p","d","f","s","/","s","c","a","n",".","p","d","f">>],
    [link_text |-> <<"B","a","d">>, pdf_url |-> <<"h","t","t","p",":","/","/","t","e","s","t",".","c","o","m","/","b","a","d",".","p","d","f">>,
     local_path |-> <<"/","p","d","f","s","/","b","a","d",".","p","d","f">>],
    [link_text |-> <<"E","m","p","t","y">>, pdf_url |-> <<"h","t","t","p",":","/","/","t","e","s","t",".","c","o","m","/","e","m","p","t","y",".","p","d","f">>,
     local_path |-> <<"/","p","d","f","s","/","e","m","p","t","y",".","p","d","f">>],
    [link_text |-> <<"J","u","n","k">>, pdf_url |-> <<"h","t","t","p",":","/","/","t","e","s","t",".","c","o","m","/","j","u","n","k",".","p","d","f">>,
     local_path |-> <<"/","p","d","f","s","/","j","u","n","k",".","p","d","f">>],
    [link_text |-> <<"M","e","n","i","u">>, pdf_url |-> <<"h","t","t","p",":","/","/","t","e","s","t",".","c","o","m","/","m","e","n","u",".","p","d","f">>,
     local_path |-> <<"/","p","d","f","s","/","m","e","n","u",".","p","d","f">>],
    [link_text |-> <<"C","i","f","r","a"," ","2","0","2","4">>, pdf_url |-> <<"h","t","t","p",":","/","/","t","e","s","t",".","c","o","m","/","m","i","x","e","d","2","0","2","4",".","p","d","f">>,
     local_path |-> <<"/","p","d","f","s","/","m","i","x","e","d",".","p","d","f">>],
    [link_text |-> <<"G","o","n","e">>, pdf_url |-> <<"h","t","t","p",":","/","/","t","e","s","t",".","c","o","m","/","g","o","n","e",".","p","d","f">>,
     local_path |-> <<"/","p","d","f","s","/","g","o","n","e",".","p","d","f">>],
    [link_text |-> <<"P","l","a","n"," ","2","0","2","6">>, pdf_url |-> <<"h","t","t","p",":","/","/","t","e","s","t",".","c","o","m","/","p","l","a","n",".","p","d","f">>] }

\* [r for r in raw_rows if len(r['program_name']) > 5 and "copie" not in r['program_name'].lower()]
SanityRows(raw_rows) ==
  SelectSeq(raw_rows, LAMBDA r :
     Len(r.program_name) > 5 /\ ~Contains(Lower(r.program_name), <<"c","o","p","i","e">>))

\* variant: a candidate is discarded as soon as half of its rows fail
Sanitized_AtHalf(candidate, c_score, raw_rows, valid_rows, rows_list) ==
  IF valid_rows = <<>> \/ 2 * Len(valid_rows) <= Len(raw_rows)
    THEN [raised |-> FALSE, outcome |-> "garbage", rows_list |-> rows_list]
  ELSE [raised |-> FALSE, outcome |-> "extracted",
        rows_list |-> Append(rows_list,
                             [rows |-> valid_rows, url |-> candidate.pdf_url,
                              score |-> c_score, link_text |-> candidate.link_text])]

\* matcher.py:318-331 : the rows are discarded, or the source joins pdf_rows_list
Sanitized(candidate, c_score, raw_rows, valid_rows, rows_list) ==
  IF valid_rows = <<>> \/ 2 * Len(valid_rows) < Len(raw_rows)
    THEN [raised |-> FALSE, outcome |-> "garbage", rows_list |-> rows_list]
  ELSE [raised |-> FALSE, outcome |-> "extracted",
        rows_list |-> Append(rows_list,
                             [rows |-> valid_rows, url |-> candidate.pdf_url,
                              score |-> c_score, link_text |-> candidate.link_text])]

\* matcher.py:306-338 : Stage B and the extraction of a candidate whose file exists
Evaluated(candidate, doc, rows_list) ==
  IF doc.content_score < 0 - 5
    THEN [raised |-> FALSE, outcome |-> "poor_content", rows_list |-> rows_list]
  ELSE IF doc.extract = "raises"
    THEN [raised |-> FALSE, outcome |-> "parse_error", rows_list |-> rows_list]
  ELSE IF doc.rows = <<>>
    THEN [raised |-> FALSE, outcome |-> "zero_rows", rows_list |-> rows_list]
  ELSE Sanitized(candidate, doc.content_score, doc.rows, SanityRows(doc.rows), rows_list)

\* matcher.py:298-338 : one iteration of the loop over spots_candidates;
\* candidate["local_path"] is read outside the try block
ExamineCandidate(candidate, rows_list) ==
  IF "local_path" \notin DOMAIN candidate
    THEN [raised |-> TRUE, outcome |-> "KeyError", rows_list |-> rows_list]
  ELSE IF candidate.local_path \notin DOMAIN Pdfs
    THEN [raised |-> FALSE, outcome |-> "pdf_missing", rows_list |-> rows_list]
  ELSE Evaluated(candidate, Pdfs[candidate.local_path], rows_list)

\* self._resolve_faculty_uid(slug): the fallback, a function of the slug
resolve_faculty_uid(slug) == slug \o <<"_","h","a","s","h">>

\* raw/<slug>/ as the scraper left it: the program files (missing directory,
\* an unreadable file, or the dicts in glob order) and pdf_queue.json
FacultyDir(programs_state, progs, queue_state, queue) ==
  [programs_state |-> programs_state, programs |-> progs,
   queue_state |-> queue_state, queue |-> queue]

\* where _enrich_faculty is: pc is "examine" in the loop over spots_candidates,
\* "fuse" in the loop over pdf_rows_list, "done" after a return, "raised" after
\* an exception left the function; ranked, examined and fused keep what the
\* call has ranked, examined and fused so far
Faculty(slug, pc, outcome, progs, cands, rows_list) ==
  [slug |-> slug, pc |-> pc, outcome |-> outcome, programs |-> progs,
   ranked |-> cands, cands |-> cands, rows_list |-> rows_list, examined |-> <<>>,
   fused |-> <<>>]

\* matcher.py:291-296 : the ranked candidates, or the return when there are none
Ranked(slug, progs, spots_candidates) ==
  IF spots_candidates = <<>>
    THEN Faculty(slug, "done", "no_candidates", progs, <<>>, <<>>)
  ELSE Faculty(slug, "examine", "running", progs, spots_candidates, <<>>)

\* matcher.py:260-296 : _enrich_faculty up to the loop over the candidates
LoadFaculty(slug, dir) ==
  IF dir.programs_state = "missing"
    THEN Faculty(slug, "done", "no_programs_dir", <<>>, <<>>, <<>>)
  ELSE IF dir.programs_state = "corrupt"
    THEN Faculty(slug, "raised", "JSONDecodeError", <<>>, <<>>, <<>>)
  ELSE IF dir.queue_state = "missing"
    THEN Faculty(slug, "done", "no_pdf_queue", dir.programs, <<>>, <<>>)
  ELSE IF dir.queue_state = "corrupt"
    THEN Faculty(slug, "raised", "JSONDecodeError", dir.programs, <<>>, <<>>)
  ELSE Ranked(slug, dir.programs, identify_spots_pdf(dir.queue))

\* matcher.py:298-342 : the faculty after one candidate has been examined
Examined(f, res) ==
  [f EXCEPT
     !.cands = Tail(f.cands),
     !.rows_list = res.rows_list,
     !.examined = Append(f.examined, [url |-> UrlOf(Head(f.cands)), outcome |-> res.outcome]),
     !.pc = IF res.raised THEN "raised"
            ELSE IF Tail(f.cands) # <<>> THEN "examine"
            ELSE IF res.rows_list = <<>> THEN "done"
            ELSE "fuse",
     !.outcome = IF res.raised THEN res.outcome
                 ELSE IF Tail(f.cands) = <<>> /\ res.rows_list = <<>> THEN "no_rows"
                 ELSE "running"]

\* matcher.py:352-353 : the faculty after one call of _fuse_data has returned
Fused(f, out) ==
  [f EXCEPT
     !.programs = out.programs,
     !.rows_list = Tail(f.rows_list),
     !.fused = Append(f.fused, Head(f.rows_list).url),
     !.pc = IF Tail(f.rows_list) = <<>> THEN "done" ELSE "fuse",
     !.outcome = IF Tail(f.rows_list) = <<>> THEN "enriched" ELSE "running"]

\* matcher.py:352-353 : self._fuse_data(slug, programs, res["rows"], res["url"], faculty_uid,
\* grades_map, res["score"], res["link_text"]) for the next source, grades_map being {}
FuseNext(f, st, q, now) ==
  fuse_data(f.programs, st, q, f.slug, Head(f.rows_list), resolve_faculty_uid(f.slug), now)

(***************************************************************************)
(* Specification SpecEnrich: enrich_run over the faculties of the          *)
(* manifest, one after the other.                                          *)
(***************************************************************************)
MaxQueue == 3

SlugB == <<"f","m","i">>

Idle == Faculty(<<>>, "done", "idle", <<>>, <<>>, <<>>)

\* pdf_queue.json: up to MaxQueue different entries, in the order they were found
Queues ==
  UNION { { q \in [1..n -> QueueEntries] : \A i, j \in 1..n : q[i] = q[j] => i = j } :
          n \in 0..MaxQueue }

\* the directories the varied faculty may have
FacultyDirs ==
  { FacultyDir("missing", <<>>, "missing", <<>>),
    FacultyDir("corrupt", <<>>, "ok", <<>>) }
  \cup { FacultyDir("ok", progs, qs, <<>>) :
           progs \in {<<ProgInformatica>>, <<>>}, qs \in {"missing", "corrupt"} }
  \cup { FacultyDir("ok", progs, "ok", q) :
           progs \in {<<ProgInformatica>>, <<>>}, q \in Queues }

\* the directory of the other faculty: one record, one good source
DirB ==
  FacultyDir("ok", <<ProgInformatica>>, "ok",
             <<[link_text |-> <<"S","t","r","o","n","g"," ","P","D","F">>, pdf_url |-> <<"h","t","t","p",":","/","/","t","e","s","t",".","c","o","m","/","s","t","r","o","n","g",".","p","d","f">>,
                local_path |-> <<"/","p","d","f","s","/","s","t","r","o","n","g",".","p","d","f">>]>>)

\* the program files the scraper left on disk
InitialStore(raw) == SaveAll(SaveAll(EmptyDict, Slug, raw[Slug].programs, 1), SlugB, raw[SlugB].programs, 1)

InitEnrich ==
  /\ \E dir \in FacultyDirs : \E order \in {<<Slug, SlugB>>, <<SlugB, Slug>>} :
        call = [op |-> "enrich_run", successful |-> order,
                raw |-> (Slug :> dir) @@ (SlugB :> DirB)]
  /\ run = [pc |-> "run", todo |-> call.successful, cur |-> Idle, finished |-> <<>>]
  /\ store = InitialStore(call.raw)
  /\ fuzz = [ts |-> EmptyDict, pr |-> EmptyDict]
  /\ quarantine = EmptyDict
  /\ programs = <<>>
  /\ clock = 0
  /\ last = NoCall
  /\ ret = NotRun
  /\ twin = <<>>
  /\ todoA = <<>>
  /\ todoB = <<>>

\* the run after _enrich_faculty moved to f; an exception leaves enrich_run as well
Moved(f) ==
  [run EXCEPT !.cur = f, !.pc = IF f.pc = "raised" THEN "raised" ELSE "run"]

\* enrich_run, matcher.py:256-257 : the loop takes the next faculty
EnrichFaculty ==
  /\ run.pc = "run"
  /\ run.cur.pc = "done"
  /\ run.todo # <<>>
  /\ run' = [Moved(LoadFaculty(Head(run.todo), call.raw[Head(run.todo)])) EXCEPT
               !.todo = Tail(run.todo),
               !.finished = IF run.cur = Idle THEN run.finished
                            ELSE Append(run.finished, run.cur)]
  /\ programs' = run'.cur.programs
  /\ UNCHANGED <<fuzz, call, ret, store, quarantine, clock, last, twin, todoA, todoB>>

\* _enrich_faculty, matcher.py:298-342 : the next ranked candidate
Examine ==
  /\ run.pc = "run"
  /\ run.cur.pc = "examine"
  /\ run' = Moved(Examined(run.cur, ExamineCandidate(Head(run.cur.cands), run.cur.rows_list)))
  /\ UNCHANGED <<fuzz, call, ret, programs, store, quarantine, clock, last, twin, todoA, todoB>>

\* the run and the disk once the call has returned
FusedSource(out) ==
  /\ run' = Moved(Fused(run.cur, out))
  /\ Returned(Head(run.cur.rows_list), out)

\* _enrich_faculty, matcher.py:352-353 : the next source of pdf_rows_list is fused
FuseSource ==
  /\ run.pc = "run"
  /\ run.cur.pc = "fuse"
  /\ FusedSource(FuseNext(run.cur, store, quarantine, clock + 1))
  /\ clock' = clock + 1
  /\ UNCHANGED <<fuzz, call, ret, twin, todoA, todoB>>

\* enrich_run returns after the last faculty
EnrichReturn ==
  /\ run.pc = "run"
  /\ run.cur.pc = "done"
  /\ run.todo = <<>>
  /\ run' = [run EXCEPT !.pc = "finished",
                        !.finished = Append(run.finished, run.cur)]
  /\ UNCHANGED <<fuzz, call, ret, programs, store, quarantine, clock, last, twin, todoA, todoB>>

NextEnrich == EnrichFaculty \/ Examine \/ FuseSource \/ EnrichReturn

SpecEnrich == InitEnrich /\ [][NextEnrich]_vars

(***************************************************************************)
(* _fuse_data with a grade map (matcher.py:618-639).  grades_map is the    *)
(* dict json.load returns, as the sequence of its items in file order; a   *)
(* grade is in hundredths.                                                 *)
(***************************************************************************)
\* a grade key is attached above this token-set ratio
GradeFloor == 85

\* if g_score > 85 and g_score > best_g_score
BetterKey(g_score, best_g_score) == g_score > GradeFloor /\ g_score > best_g_score

\* fuzz.token_set_ratio(html_norm, self._romanian_normalize(g_key))
GradeScore(html_norm, g_key) == token_set_ratio(html_norm, romanian_normalize(g_key))

\* matcher.py:625-630 : the loop over the keys from item k on; best is the index
\* of best_g_key, 0 for None
RECURSIVE BestGradeKey(_, _, _, _, _)
BestGradeKey(html_norm, grades_map, k, best, best_g_score) ==
  IF k > Len(grades_map) THEN best
  ELSE IF BetterKey(GradeScore(html_norm, grades_map[k].key), best_g_score)
    THEN BestGradeKey(html_norm, grades_map, k + 1, k,
                      GradeScore(html_norm, grades_map[k].key))
  ELSE BestGradeKey(html_norm, grades_map, k + 1, best, best_g_score)

\* matcher.py:632-636 : the grade of item `best` is written into the record
AttachGrade(prog, grades_map, best) ==
  IF best = 0 THEN prog
  ELSE Put(Put(prog, "last_admission_grade", grades_map[best].grade),
           "metadata",
           Put(Get(prog, "metadata", EmptyDict), "grade_source", grades_map[best].key))

\* matcher.py:619-639 for one record
FuseGrade(prog, grades_map) ==
  AttachGrade(prog, grades_map,
              BestGradeKey(romanian_normalize(prog.name), grades_map, 1, 0, 0))

\* the records and their files after the grade block ran in every iteration
GradesFused(out, slug, progs) ==
  [out EXCEPT !.programs = progs, !.store = SaveAll(out.store, slug, progs, 1)]

\* DataFusionEngine._fuse_data with grades_map: the grade block is reached in the
\* loop over the match results only, and skipped for an empty map
fuse_data_grades(progs, st, q, slug, src, faculty_uid, now, grades_map) ==
  IF grades_map = <<>> \/ fuse_data(progs, st, q, slug, src, faculty_uid, now).mode # "html"
    THEN fuse_data(progs, st, q, slug, src, faculty_uid, now)
  ELSE GradesFused(fuse_data(progs, st, q, slug, src, faculty_uid, now), slug,
                   [i \in 1..Len(progs) |->
                      FuseGrade(fuse_data(progs, st, q, slug, src, faculty_uid, now).programs[i],
                                grades_map)])

(***************************************************************************)
(* Specification SpecGrades: a faculty's records under a sequence of       *)
(* _fuse_data calls that carry the faculty's grade map.                    *)
(***************************************************************************)
Informatice == <<"I","n","f","o","r","m","a","t","i","c","e">>

Automatizari == <<"A","u","t","o","m","a","t","i","z","a","r","i">>

\* grades_map_*.json
GradeMaps ==
  { <<[key |-> InformaticaDia, grade |-> 950]>>,
    <<[key |-> Informatice, grade |-> 870], [key |-> Automatizari, grade |-> 910]>>,
    <<[key |-> Automatizari, grade |-> 910], [key |-> Informatice, grade |-> 870],
      [key |-> InformaticaDia, grade |-> 950]>> }

GradeKeys == { romanian_normalize(k) : k \in {InformaticaDia, Informatice, Automatizari} }

\* <<token_set_ratio, partial_ratio>> the library may return in the grade runs
GradeOutcomes == { <<20, 20>>, <<80, 80>>, <<85, 80>>, <<90, 80>> }

\* the sources of the grade runs: accepted matches, a rejected one, no PASS row
GradeSources ==
  { src \in PdfSources : \E r \in Range(src.rows) : r \in {RowStrong, RowContact, RowMaster} }

InitGrades ==
  /\ programs \in {<<ProgInformatica>>, <<ProgAutomatica>>}
  /\ \E g \in GradeMaps : call = [op |-> "fuse_data", grades_map |-> g]
  /\ fuzz \in FuzzTables(Unequal(ProgramNames(programs), PassingRowNames \cup GradeKeys),
                         GradeOutcomes)
  /\ store = SaveAll(EmptyDict, Slug, programs, 1)
  /\ quarantine = EmptyDict
  /\ clock = 0
  /\ last = NoCall
  /\ ret = NotRun
  /\ twin = <<>>
  /\ todoA = <<>>
  /\ todoB = <<>>
  /\ run = NoRun

\* one call self._fuse_data(slug, programs, rows, url, faculty_uid, grades_map, score, link_text)
FuseDataGrades(src) ==
  /\ clock < MaxCalls
  /\ Returned(src, fuse_data_grades(programs, store, quarantine, Slug, src, FacultyUid,
                                    clock + 1, call.grades_map))
  /\ clock' = clock + 1
  /\ UNCHANGED <<fuzz, call, ret, twin, todoA, todoB, run>>

NextGrades == \E src \in GradeSources : FuseDataGrades(src)

SpecGrades == InitGrades /\ [][NextGrades]_vars

(***************************************************************************)
(* Specification SpecParallel: _enrich_faculty is invoked for two          *)
(* faculties on one engine and the two invocations are interleaved step by *)
(* step (a step is the loading, one candidate, or one _fuse_data call).    *)
(***************************************************************************)
NotCalled(slug) == Faculty(slug, "start", "not_called", <<>>, <<>>, <<>>)

EntryOf(link_text) == CHOOSE e \in QueueEntries : e.link_text = link_text

\* the queues of the two faculties: one source, two sources with a QUARANTINE
\* row, a candidate that was not downloaded
ParallelQueues ==
  { <<EntryOf(<<"S","t","r","o","n","g"," ","P","D","F">>)>>,
    <<EntryOf(<<"C","i","f","r","a"," ","2","0","2","4">>), EntryOf(<<"L","o","c","u","r","i">>)>>,
    <<EntryOf(<<"P","l","a","n"," ","2","0","2","6">>), EntryOf(<<"S","t","r","o","n","g"," ","P","D","F">>)>> }

ParallelDirs ==
  { FacultyDir("ok", progs, "ok", q) :
      progs \in {<<ProgInformatica>>, <<>>}, q \in ParallelQueues }

InitParallel ==
  /\ \E dirA \in ParallelDirs : \E dirB \in ParallelDirs :
        call = [op |-> "enrich_faculty", raw |-> (Slug :> dirA) @@ (SlugB :> dirB)]
  /\ run = [pc |-> "parallel", procs |-> (Slug :> NotCalled(Slug)) @@ (SlugB :> NotCalled(SlugB))]
  /\ store = InitialStore(call.raw)
  /\ fuzz = [ts |-> EmptyDict, pr |-> EmptyDict]
  /\ quarantine = EmptyDict
  /\ programs = <<>>
  /\ clock = 0
  /\ last = NoCall
  /\ ret = NotRun
  /\ twin = <<>>
  /\ todoA = <<>>
  /\ todoB = <<>>

\* the invocation for slug moved to f
Stepped(slug, f) == run' = [run EXCEPT !.procs[slug] = f]

\* _enrich_faculty(slug) is called and loads the faculty (matcher.py:260-296)
ParallelLoad(slug) ==
  /\ run.pc = "parallel"
  /\ run.procs[slug].pc = "start"
  /\ Stepped(slug, LoadFaculty(slug, call.raw[slug]))
  /\ UNCHANGED <<fuzz, call, ret, programs, store, quarantine, clock, last, twin, todoA, todoB>>

\* its next ranked candidate (matcher.py:298-342)
ParallelExamine(slug) ==
  /\ run.pc = "parallel"
  /\ run.procs[slug].pc = "examine"
  /\ Stepped(slug, Examined(run.procs[slug],
                            ExamineCandidate(Head(run.procs[slug].cands),
                                             run.procs[slug].rows_list)))
  /\ UNCHANGED <<fuzz, call, ret, programs, store, quarantine, clock, last, twin, todoA, todoB>>

\* the disk and the invocation once its _fuse_data call has returned
ParallelFused(slug, out) ==
  /\ Stepped(slug, Fused(run.procs[slug], out))
  /\ store' = out.store
  /\ quarantine' = out.quarantine
  /\ last' = CallRecord(Head(run.procs[slug].rows_list), out)

\* its next source is fused (matcher.py:352-353)
ParallelFuse(slug) ==
  /\ run.pc = "parallel"
  /\ run.procs[slug].pc = "fuse"
  /\ ParallelFused(slug, FuseNext(run.procs[slug], store, quarantine, clock + 1))
  /\ clock' = clock + 1
  /\ UNCHANGED <<fuzz, call, ret, programs, twin, todoA, todoB>>

NextParallel ==
  \E slug \in {Slug, SlugB} :
     ParallelLoad(slug) \/ ParallelExamine(slug) \/ ParallelFuse(slug)

SpecParallel == InitParallel /\ [][NextParallel]_vars

(***************************************************************************)
(* PDFTruthRanker.evaluate_content (enrichment/pdf_ranker.py) and the      *)
(* Stage-B gate of _enrich_faculty.  A document is what pdfplumber gives:  *)
(* whether it opens, and for each page the lines of extract_text() and     *)
(* whether extract_tables() finds a table.                                 *)
(***************************************************************************)
\* page.extract_text() or ""
PageText(page) == JoinNewline(page.lines)

\* sample_text: the text of pdf.pages[:2], concatenated
SampleText(pages) ==
  IF Len(pages) = 0 THEN <<>>
  ELSE IF Len(pages) = 1 THEN PageText(pages[1])
  ELSE PageText(pages[1]) \o PageText(pages[2])

\* any(page.extract_tables() for page in pdf.pages[:2])
SampleHasTable(pages) == \E i \in 1..Min(Len(pages), 2) : pages[i].has_table

\* the alternatives (?:loc|buget|tax)
SpotWords == {<<"l","o","c">>, <<"b","u","g","e","t">>, <<"t","a","x">>}

\* the regex class \s on the characters of a page text
ReSpace == Whitespace \cup {"\n"}

\* re.findall(r'\d+\s+(?:loc|buget|tax)', text, re.IGNORECASE): a match is the end
\* of a run of digits, the whitespace after it and a word that follows
SpotMatches(text) ==
  { i \in 1..Len(text) :
      /\ IsDigit(text[i])
      /\ \E k \in (i + 1)..Len(text) :
            /\ \A j \in (i + 1)..k : text[j] \in ReSpace
            /\ \E w \in SpotWords :
                  k + Len(w) <= Len(text) /\ Lower(SubSeq(text, k + 1, k + Len(w))) = w }

\* pdf_ranker.py:116-131 : the score of the three metrics
ContentScore(char_count, sampled, rows_with_numbers, has_table) ==
  (IF char_count < 50 * sampled THEN 0 - 10 ELSE 5)
  + (IF rows_with_numbers > 0 THEN 10 + Min(rows_with_numbers, 10) ELSE 0)
  + (IF has_table THEN 5 ELSE 0)

\* pdf_ranker.py:77-84, 133 : the metrics; text_density is in tenths of a character
Metrics(page_count, char_count, sampled, has_table, rows_with_numbers, year, score) ==
  [page_count |-> page_count, text_density |-> (10 * char_count) \div sampled,
   has_table |-> has_table, rows_with_numbers |-> rows_with_numbers,
   detected_year |-> year, content_score |-> score]

\* pdf_ranker.py:92-131 : the metrics of the sampled text
SampleMetrics(pages, text, rows_with_numbers) ==
  Metrics(Len(pages), Len(text), Max(1, Min(Len(pages), 2)), SampleHasTable(pages),
          rows_with_numbers,
          IF Contains(text, Str(AdmissionYear)) THEN AdmissionYear ELSE NoneN,
          ContentScore(Len(text), Max(1, Min(Len(pages), 2)), rows_with_numbers,
                       SampleHasTable(pages)))

\* PDFTruthRanker.evaluate_content: a file that cannot be opened and a file
\* without pages leave the initial metrics
evaluate_content(doc) ==
  IF ~doc.opens \/ doc.pages = <<>>
    THEN Metrics(0, 0, 1, FALSE, 0, NoneN, 0)
  ELSE SampleMetrics(doc.pages, SampleText(doc.pages),
                     Cardinality(SpotMatches(SampleText(doc.pages))))

\* lines the pages of the runs are made of
LineSeats == <<"I","n","f","o","r","m","a","t","i","c","a"," ","2","5"," ","l","o","c","u","r","i"," ","b","u","g","e","t"," ","1","0"," ","t","a","x","a">>

LineTitle == <<"F","a","c","u","l","t","a","t","e","a"," ","d","e"," ","A","u","t","o","m","a","t","i","c","a",","," ","C","a","l","c","u","l","a","t","o","a","r","e"," ","s","i"," ","E","l","e","c","t","r","o","n","i","c","a"," ","-"," ","A","d","m","i","t","e","r","e"," ","2","0","2","6">>

LineUpper == <<"D","r","e","p","t"," ","3","0"," ","L","O","C","U","R","I">>

LineTotal == <<"T","o","t","a","l"," ","1","2">>

LineBuget == <<"b","u","g","e","t"," ","d","e"," ","s","t","a","t">>

LinePhone == <<"t","e","l"," ","0","7","2","1"," ","1","2","3"," ","4","5","6">>

\* the texts of a page, as lines
PageLineLists ==
  { <<>>, <<LineSeats>>, <<LineTitle>>, <<LineTitle, LineSeats>>, <<LineUpper>>,
    <<LineTotal, LineBuget>>, <<LinePhone>>, <<LineTitle, LineUpper, LinePhone>>,
    <<LineSeats, LineSeats, LineSeats, LineSeats, LineSeats, LineSeats>> }

ContentPages == { [lines |-> ls, has_table |-> t] : ls \in PageLineLists, t \in BOOLEAN }

\* most pages of a document of the runs
MaxDocPages == 3

Documents(most) ==
  { [opens |-> FALSE, pages |-> <<>>] } \cup
  UNION { { [opens |-> TRUE, pages |-> ps] : ps \in [1..n -> ContentPages] } : n \in 0..most }

\* the candidate whose file is the document: its extraction yields one good row
ContentCandidate == EntryOf(<<"S","t","r","o","n","g"," ","P","D","F">>)

(***************************************************************************)
(* Specification SpecContent: one candidate of the loop of _enrich_faculty *)
(* (matcher.py:306-338), Stage B computed on the document.                 *)
(***************************************************************************)
InitContent ==
  /\ \E doc \in Documents(MaxDocPages) : call = [op |-> "evaluate_content", doc |-> doc]
  /\ ret = NotRun
  /\ fuzz = [ts |-> EmptyDict, pr |-> EmptyDict]
  /\ programs = <<>>
  /\ store = EmptyDict
  /\ quarantine = EmptyDict
  /\ clock = 0
  /\ last = NoCall
  /\ twin = <<>>
  /\ todoA = <<>>
  /\ todoB = <<>>
  /\ run = NoRun

\* matcher.py:306-338 with the metrics of the document
StageB(metrics) ==
  ret' = [done |-> TRUE, value |-> metrics,
          examined |-> Evaluated(ContentCandidate,
                                 [content_score |-> metrics.content_score,
                                  extract |-> "rows", rows |-> <<RowStrong>>],
                                 <<>>)]

EvaluateContent ==
  /\ call.op = "evaluate_content"
  /\ ~ret.done
  /\ StageB(evaluate_content(call.doc))
  /\ UNCHANGED <<fuzz, call, programs, store, quarantine, clock, last, twin, todoA, todoB, run>>

NextContent == EvaluateContent

SpecContent == InitContent /\ [][NextContent]_vars

(***************************************************************************)
(* The regular expressions of PDFParser._extract_via_text.  A pattern is a *)
(* sequence of items: a choice of literals (compared without case), a      *)
(* repeated character class (greedy or lazy, max -1 for unbounded) or the  *)
(* line start.  No item depends on what an earlier item matched, so the    *)
(* match the backtracking search of `re` finds is the one that takes, item *)
(* by item, the preferred end from which the rest of the pattern matches.  *)
(***************************************************************************)
Lit(alts) == [t |-> "lit", alts |-> alts, eos |-> FALSE]

\* a choice whose last alternative is $
LitOrEnd(alts) == [t |-> "lit", alts |-> alts, eos |-> TRUE]

Cls(set, min, max, greedy) ==
  [t |-> "cls", set |-> set, any |-> FALSE, min |-> min, max |-> max, greedy |-> greedy]

\* a class given by the characters it excludes
AnyBut(set, min, max, greedy) ==
  [t |-> "cls", set |-> set, any |-> TRUE, min |-> min, max |-> max, greedy |-> greedy]

Bol == [t |-> "bol"]

\* ^ without re.MULTILINE
Bos == [t |-> "bos"]

InClass(item, c) == IF item.any THEN c \notin item.set ELSE c \in item.set

\* the longest run of characters of the class at p, up to the item's max
RunLen(item, text, p) ==
  Cardinality({ n \in 1..(IF item.max < 0 THEN Len(text) - p + 1
                          ELSE Min(item.max, Len(text) - p + 1)) :
                  \A j \in 0..(n - 1) : InClass(item, text[p + j]) })

LitFits(alt, text, p) ==
  p + Len(alt) - 1 <= Len(text) /\ Lower(SubSeq(text, p, p + Len(alt) - 1)) = alt

\* $ : the end of the text, or before a newline that ends it
AtEnd(text, p) == p = Len(text) + 1 \/ (p = Len(text) /\ text[p] = "\n")

\* the positions at which the item may end when it starts at p
ItemEnds(item, text, p) ==
  IF item.t = "bol" THEN (IF p = 1 \/ text[p - 1] = "\n" THEN {p} ELSE {})
  ELSE IF item.t = "bos" THEN (IF p = 1 THEN {p} ELSE {})
  ELSE IF item.t = "lit"
    THEN { p + Len(item.alts[a]) : a \in { b \in 1..Len(item.alts) : LitFits(item.alts[b], text, p) } }
         \cup (IF item.eos /\ AtEnd(text, p) THEN {p} ELSE {})
  ELSE { p + n : n \in item.min..RunLen(item, text, p) }

\* the first alternative, in order, that ends in ends
FirstAlt(item, p, ends) ==
  IF \E a \in 1..Len(item.alts) : p + Len(item.alts[a]) \in ends
    THEN p + Len(item.alts[CHOOSE a \in 1..Len(item.alts) :
                             /\ p + Len(item.alts[a]) \in ends
                             /\ \A b \in 1..(a - 1) : p + Len(item.alts[b]) \notin ends])
  ELSE p

\* the end the search takes: the first alternative, the longest run of a greedy
\* class, the shortest of a lazy one, among the ends the rest matches from
Preferred(item, p, ends) ==
  IF item.t \in {"bol", "bos"} THEN p
  ELSE IF item.t = "lit" THEN FirstAlt(item, p, ends)
  ELSE IF item.greedy THEN CHOOSE q \in ends : \A r \in ends : r <= q
  ELSE CHOOSE q \in ends : \A r \in ends : q <= r

\* the positions the items k.. match from, for the items k, k+1, ..., and the end
ConsValid(item, text, rest) ==
  << { p \in 1..(Len(text) + 1) : ItemEnds(item, text, p) \cap rest[1] # {} } >> \o rest

RECURSIVE ValidFrom(_, _, _)
ValidFrom(pat, text, k) ==
  IF k > Len(pat) THEN << 1..(Len(text) + 1) >>
  ELSE ConsValid(pat[k], text, ValidFrom(pat, text, k + 1))

\* the ends of the items k.. of the match that starts item k at p
RECURSIVE PathFrom(_, _, _, _, _)
PathStep(pat, text, valid, k, q) == <<q>> \o PathFrom(pat, text, valid, k + 1, q)

PathFrom(pat, text, valid, k, p) ==
  IF k > Len(pat) THEN <<>>
  ELSE PathStep(pat, text, valid, k,
                Preferred(pat[k], p, ItemEnds(pat[k], text, p) \cap valid[k + 1]))

\* pattern.finditer(text): the matches from left to right, each as the start of
\* the match followed by the end of every item
RECURSIVE MatchesFrom(_, _, _, _)
NextSearch(pat, text, valid, bounds) ==
  <<bounds>> \o MatchesFrom(pat, text, valid,
                            IF bounds[Len(bounds)] = bounds[1] THEN bounds[1] + 1
                            ELSE bounds[Len(bounds)])

MatchAt(pat, text, valid, s) ==
  NextSearch(pat, text, valid, <<s>> \o PathFrom(pat, text, valid, 1, s))

MatchesFrom(pat, text, valid, from) ==
  IF \A s \in valid[1] : s < from THEN <<>>
  ELSE MatchAt(pat, text, valid,
               CHOOSE s \in valid[1] : s >= from /\ \A r \in valid[1] : r >= from => s <= r)

FindIter(pat, text) == MatchesFrom(pat, text, ValidFrom(pat, text, 1), 1)

\* pattern.search(text) finds a match
Search(pat, text) == ValidFrom(pat, text, 1)[1] # {}

\* m.group() of item g, m.group(0)
Group(text, bounds, g) == SubSeq(text, bounds[g], bounds[g + 1] - 1)

Group0(text, bounds) == SubSeq(text, bounds[1], bounds[Len(bounds)] - 1)

(***************************************************************************)
(* PDFParser._extract_via_text  (scrapers/ucv/pdf_parser.py)               *)
(***************************************************************************)
\* name_chars: [A-Za-z<S,T,A~A^I^ s,t,a~a^i^>\d\s\-\(\),\./&]
NameChars ==
  LowerAscii \cup UpperAscii \cup {"S,", "T,", "A~", "A^", "I^", "s,", "t,", "a~", "a^", "i^"}
  \cup Digits \cup ReSpace \cup {"-", "(", ")", ",", ".", "/", "&"}

\* [A-Z<S,T,A~A^I^> \-] without case
UpperNameChars ==
  LowerAscii \cup UpperAscii \cup {"S,", "T,", "A~", "A^", "I^", "s,", "t,", "a~", "a^", "i^"}
  \cup {" ", "-"}

P1 ==
  << Lit(<<<<"s","p","e","c","i","a","l","i","z","a","r","e","a">>, <<"p","r","o","g","r","a","m","u","l">>, <<"d","o","m","e","n","i","u","l">>, <<"d","i","s","c","i","p","l","i","n","a">>>>),
     Cls(ReSpace, 0, 0 - 1, TRUE), Cls({":", "-"}, 0, 1, TRUE), Cls(ReSpace, 0, 0 - 1, TRUE),
     Cls(NameChars, 1, 0 - 1, TRUE),
     AnyBut({}, 0, 300, FALSE),
     Lit(<<<<"l","o","c","u","r","i">>>>), Cls(ReSpace, 0, 0 - 1, TRUE), Lit(<<<<"b","u","g","e","t">>>>),
     Cls(ReSpace, 0, 0 - 1, TRUE), Cls({":", "-"}, 0, 1, TRUE), Cls(ReSpace, 0, 0 - 1, TRUE),
     Cls(Digits, 1, 0 - 1, TRUE),
     AnyBut({}, 0, 100, FALSE),
     Lit(<<<<"l","o","c","u","r","i">>>>), Cls(ReSpace, 0, 0 - 1, TRUE), Lit(<<<<"t","a","x","a">>, <<"t","a","x","a~">>>>),
     Cls(ReSpace, 0, 0 - 1, TRUE), Cls({":", "-"}, 0, 1, TRUE), Cls(ReSpace, 0, 0 - 1, TRUE),
     Cls(Digits, 1, 0 - 1, TRUE) >>

P2 ==
  << Bol, Cls(NameChars, 1, 0 - 1, FALSE), Cls(ReSpace, 1, 0 - 1, TRUE),
     Cls(Digits, 1, 0 - 1, TRUE), Cls(ReSpace, 0, 0 - 1, TRUE), Lit(<<<<"l","o","c">>>>),
     AnyBut({"\n"}, 0, 0 - 1, FALSE), Lit(<<<<"b","u","g","e","t">>>>), AnyBut({"\n"}, 0, 0 - 1, FALSE),
     Cls(Digits, 1, 0 - 1, TRUE), Cls(ReSpace, 0, 0 - 1, TRUE), Lit(<<<<"l","o","c">>>>),
     AnyBut({"\n"}, 0, 0 - 1, FALSE), Lit(<<<<"t","a","x">>>>) >>

P3 ==
  << Lit(<<<<"d","i","s","c","i","p","l","i","n","a">>, <<"s","p","e","c","i","a","l","i","z","a","r","e","a">>, <<"p","r","o","g","r","a","m","u","l">>>>),
     Cls(ReSpace, 0, 0 - 1, TRUE), Cls({":", "-"}, 1, 1, TRUE), Cls(ReSpace, 0, 0 - 1, TRUE),
     Cls(UpperNameChars, 1, 0 - 1, FALSE),
     LitOrEnd(<< <<"\n">>, <<" "," ">> >>) >>

\* int(m.group(g))
RECURSIVE IntOf(_)
IntOf(digits) ==
  IF digits = <<>> THEN 0
  ELSE 10 * IntOf(SubSeq(digits, 1, Len(digits) - 1)) + DigitVal[digits[Len(digits)]]

\* unicodedata.normalize("NFKD", text): a letter with a diacritic becomes the
\* letter and a combining mark
Decomposed ==
  ("a~" :> <<"a", "{breve}">>) @@ ("a^" :> <<"a", "{circumflex}">>) @@
  ("i^" :> <<"i", "{circumflex}">>) @@ ("s," :> <<"s", "{comma}">>) @@
  ("t," :> <<"t", "{comma}">>) @@ ("s;" :> <<"s", "{cedilla}">>) @@
  ("t;" :> <<"t", "{cedilla}">>) @@
  ("A~" :> <<"A", "{breve}">>) @@ ("A^" :> <<"A", "{circumflex}">>) @@
  ("I^" :> <<"I", "{circumflex}">>) @@ ("S," :> <<"S", "{comma}">>) @@
  ("T," :> <<"T", "{comma}">>) @@ ("S;" :> <<"S", "{cedilla}">>) @@
  ("T;" :> <<"T", "{cedilla}">>)

\* where the image of character i starts in the decomposed text
NfkdStart(text, i) == i + Cardinality({ j \in 1..(i - 1) : text[j] \in DOMAIN Decomposed })

NfkdAt(text, j, i) ==
  IF text[i] \notin DOMAIN Decomposed THEN text[i]
  ELSE Decomposed[text[i]][j - NfkdStart(text, i) + 1]

Nfkd(text) ==
  IF \A i \in 1..Len(text) : text[i] \notin DOMAIN Decomposed THEN text
  ELSE [ j \in 1..NfkdStart(text, Len(text) + 1) - 1 |->
           NfkdAt(text, j, CHOOSE i \in 1..Len(text) :
                             NfkdStart(text, i) <= j /\ j < NfkdStart(text, i + 1)) ]

\* .replace("\n", " ") on what .replace("-\n", "") kept, given as <<index, character>>
Unbroken(kept) == [i \in 1..Len(kept) |-> IF kept[i][2] = "\n" THEN " " ELSE kept[i][2]]

\* clean_text.replace("-\n", "").replace("\n", " ")
Unwrap(text) ==
  Unbroken(SelectSeq([i \in 1..Len(text) |-> <<i, text[i]>>],
                     LAMBDA c : ~ \/ c[2] = "-" /\ c[1] < Len(text) /\ text[c[1] + 1] = "\n"
                                  \/ c[2] = "\n" /\ c[1] > 1 /\ text[c[1] - 1] = "-"))

\* str.upper() on one character, str.upper()
UpperCh(c) == IF \E u \in DOMAIN LowerOf : LowerOf[u] = c
                THEN CHOOSE u \in DOMAIN LowerOf : LowerOf[u] = c ELSE c

Upper(s) == [i \in 1..Len(s) |-> UpperCh(s[i])]

\* pdf_parser.py:193-197 : the level of the page
PageLevel(text_upper) ==
  IF Contains(text_upper, <<"M","A","S","T","E","R">>) THEN <<"M","a","s","t","e","r">>
  ELSE IF Contains(text_upper, <<"L","I","C","E","N","T","A">>) \/ Contains(text_upper, <<"L","I","C","E","N","T,","A~">>)
    THEN <<"L","i","c","e","n","t","a">>
  ELSE NoneS

TextRow(name, budget, tax, level, raw_row, page) ==
  [program_name |-> name, spots_budget |-> budget, spots_tax |-> tax, level |-> level,
   domain |-> NoneS, raw_row |-> raw_row, page |-> page]

\* pdf_parser.py:200-209 : the rows of pattern 1
P1Rows(text, matches, level, page) ==
  [i \in 1..Len(matches) |->
     TextRow(Strip(Group(text, matches[i], 5)), IntOf(Group(text, matches[i], 13)),
             IntOf(Group(text, matches[i], 21)), level,
             SubSeq(Group0(text, matches[i]), 1, Min(100, Len(Group0(text, matches[i])))),
             page)]

\* pdf_parser.py:212-224 : the rows pattern 2 proposes
P2Rows(text, matches, level, page) ==
  SelectSeq([i \in 1..Len(matches) |->
               TextRow(Strip(Group(text, matches[i], 2)), IntOf(Group(text, matches[i], 4)),
                       IntOf(Group(text, matches[i], 10)), level,
                       Group0(text, matches[i]), page)],
            LAMBDA r : Len(r.program_name) > 5)

\* pdf_parser.py:229-241 : the rows pattern 3 proposes
P3Rows(text, matches, level, page) ==
  SelectSeq([i \in 1..Len(matches) |->
               TextRow(Strip(Group(text, matches[i], 5)), NoneN, NoneN, level,
                       Group0(text, matches[i]), page)],
            LAMBDA r : /\ Len(r.program_name) > 5
                       /\ ~Contains(Upper(r.program_name), <<"M","A","S","T","E","R">>)
                       /\ ~Contains(Upper(r.program_name), <<"A","G","R","O","N","O","M","I","E">>))

\* a proposed row is added unless results already has its name
RECURSIVE AppendNew(_, _, _)
AppendNew(results, rows, i) ==
  IF i > Len(rows) THEN results
  ELSE AppendNew(IF \E k \in 1..Len(results) : results[k].program_name = rows[i].program_name
                   THEN results ELSE Append(results, rows[i]),
                 rows, i + 1)

\* pdf_parser.py:199-241 : the three patterns on the text of one page
PatternRows(results, text, level, page) ==
  AppendNew(AppendNew(results \o P1Rows(text, FindIter(P1, text), level, page),
                      P2Rows(text, FindIter(P2, text), level, page), 1),
            P3Rows(text, FindIter(P3, text), level, page), 1)

\* pdf_parser.py:179-187 : the text of a page the patterns are matched against
MatchedText(raw_text) == Unwrap(Nfkd(clean_text(<<raw_text>>)))

\* pdf_parser.py:175-241 : the loop over the pages
RECURSIVE PagesFrom(_, _, _)
PageStep(results, raw_pages, page_idx, text) ==
  PagesFrom(PatternRows(results, text, PageLevel(Upper(text)), page_idx), raw_pages, page_idx + 1)

PagesFrom(results, raw_pages, page_idx) ==
  IF page_idx > Len(raw_pages) THEN results
  ELSE IF raw_pages[page_idx] = <<>> THEN PagesFrom(results, raw_pages, page_idx + 1)
  ELSE PageStep(results, raw_pages, page_idx, MatchedText(raw_pages[page_idx]))

\* pdf_parser.py:246-253 : the blacklist on the names
TextBlacklist == {<<"t","o","t","a","l">>, <<"c","o","p","i","e">>, <<"m","e","n","t","i","u","n","e","a">>, <<"o","r","i","g","i","n","a","l">>, <<"s","e","c","r","e","t","a","r">>, <<"s","e","m","n","a","t","u","r","a">>, <<"d","o","c","u","m","e","n","t">>, <<"f","i","e","c","a","r","e">>}

BlacklistNorm(name) ==
  [i \in 1..Len(name) |->
     LET c == LowerCh(name[i])
     IN  CASE c \in {"a~", "a^"} -> "a" [] c = "i^" -> "i" [] c = "s," -> "s"
           [] c = "t," -> "t" [] OTHER -> c]

FinalResults(results) ==
  SelectSeq(results, LAMBDA r : ~ \E b \in TextBlacklist : Contains(BlacklistNorm(r.program_name), b))

\* PDFParser._extract_via_text: a file that does not open yields no rows
extract_via_text(doc) ==
  IF ~doc.opens THEN <<>> ELSE FinalResults(PagesFrom(<<>>, doc.pages, 1))

\* lines the pages of the runs are made of
LineHeader == <<"U","n","i","v","e","r","s","i","t","a","t","e","a"," ","d","i","n"," ","C","r","a","i","o","v","a">>

LineItem == <<"I","n","f","o","r","m","a","t","i","c","a"," ","2","5"," ","l","o","c","u","r","i"," ","b","u","g","e","t"," ","1","0"," ","l","o","c","u","r","i"," ","t","a","x","a">>

LineSpec == <<"S","p","e","c","i","a","l","i","z","a","r","e","a",":"," ","M","e","c","a","n","i","c","a"," ","L","o","c","u","r","i"," ","b","u","g","e","t",":"," ","2","0"," ","L","o","c","u","r","i"," ","t","a","x","a",":"," ","5">>

LineProgram == <<"P","R","O","G","R","A","M","U","L",":"," ","H","O","R","T","I","C","U","L","T","U","R","A">>

LineMaster == <<"S","t","u","d","i","i"," ","d","e"," ","M","A","S","T","E","R">>

LineDisciplina == <<"D","i","s","c","i","p","l","i","n","a"," ","-"," ","A","g","r","o","n","o","m","i","e"," ","m","o","n","t","a","n","a">>

\* a name cut by a hyphen at the end of the line
LineCut == <<"P","r","o","g","r","a","m","u","l",":"," ","H","o","r","t","i","-">>

LineRest == <<"c","u","l","t","u","r","a">>

LineStiinte == <<"P","r","o","g","r","a","m","u","l",":"," ">> \o <<"S,", "t", "i", "i", "n", "t,", "e">>

\* the raw texts of a page
RawPages ==
  { JoinNewline(ls) : ls \in { <<>>, <<LineItem>>, <<LineHeader, LineItem>>, <<LineHeader, LineSpec>>,
                               <<LineHeader, LineProgram>>, <<LineHeader, LineMaster, LineItem>>,
                               <<LineProgram>>, <<LineHeader, LineDisciplina>>, <<LineSpec>>,
                               <<LineCut, LineRest>>, <<LineStiinte>> } }

\* most pages of a document of the text runs
MaxTextPages == 2

TextDocuments(most) ==
  { [opens |-> FALSE, pages |-> <<>>] } \cup
  UNION { { [opens |-> TRUE, pages |-> ps] : ps \in [1..n -> RawPages] } : n \in 0..most }

(***************************************************************************)
(* Specification SpecText: _extract_via_text on one document.              *)
(***************************************************************************)
InitText ==
  /\ \E doc \in TextDocuments(MaxTextPages) : call = [op |-> "extract_via_text", doc |-> doc]
  /\ ret = NotRun
  /\ fuzz = [ts |-> EmptyDict, pr |-> EmptyDict]
  /\ programs = <<>>
  /\ store = EmptyDict
  /\ quarantine = EmptyDict
  /\ clock = 0
  /\ last = NoCall
  /\ twin = <<>>
  /\ todoA = <<>>
  /\ todoB = <<>>
  /\ run = NoRun

\* the rows returned, and for every page the text the patterns were matched
\* against (the local clean_text; empty for a page that was skipped)
ExtractViaText ==
  /\ call.op = "extract_via_text"
  /\ ~ret.done
  /\ ret' = [done |-> TRUE, value |-> extract_via_text(call.doc),
             matched |-> [i \in 1..Len(call.doc.pages) |->
                            IF ~call.doc.opens \/ call.doc.pages[i] = <<>> THEN <<>>
                            ELSE MatchedText(call.doc.pages[i])]]
  /\ UNCHANGED <<fuzz, call, programs, store, quarantine, clock, last, twin, todoA, todoB, run>>

NextText == ExtractViaText

SpecText == InitText /\ [][NextText]_vars

(***************************************************************************)
(* Specification SpecSanity: one candidate of the loop of _enrich_faculty, *)
(* whose file exists, examined with the sources collected so far.          *)
(***************************************************************************)
\* most rows extract_spots returns in the sanity runs
MaxSanityRows == 4

\* a row whose name has six characters
RowFizica ==
  [program_name |-> <<"F","i","z","i","c","a">>, spots_budget |-> 30, spots_tax |-> 5, level |-> LvlLicenta,
   domain |-> NoneS, raw_row |-> <<"[","'","F","i","z","i","c","a","'",","," ","'","3","0","'",","," ","'","5","'","]">>]

\* a row whose name has the word in capitals
RowCopieUpper ==
  [program_name |-> <<"C","O","P","I","E"," ","X","E","R","O","X">>, spots_budget |-> NoneN, spots_tax |-> NoneN,
   level |-> NoneS, domain |-> NoneS, raw_row |-> <<"[","'","C","O","P","I","E"," ","X","E","R","O","X","'","]">>]

SanityInputRows == { RowShort, RowCopie, RowCopieUpper, RowFizica, RowAutomatica }

\* what the candidate's file holds: the Stage-B score and what extract_spots does
SanityDocs(most) ==
  { [content_score |-> s, extract |-> "raises", rows |-> <<>>] : s \in {0 - 10, 5} } \cup
  UNION { { [content_score |-> s, extract |-> "rows", rows |-> rs] :
              s \in {0 - 10, 0 - 5, 5}, rs \in [1..n -> SanityInputRows] } : n \in 0..most }

\* pdf_rows_list before the candidate: empty, or an earlier source
EarlierSources ==
  { <<>>, << [rows |-> <<RowStrong>>, url |-> ContentCandidate.pdf_url, score |-> 12,
              link_text |-> ContentCandidate.link_text] >> }

InitSanity ==
  /\ \E doc \in SanityDocs(MaxSanityRows), rows_list \in EarlierSources :
        call = [op |-> "examine", candidate |-> EntryOf(<<"J","u","n","k">>), doc |-> doc,
                rows_list |-> rows_list]
  /\ ret = NotRun
  /\ fuzz = [ts |-> EmptyDict, pr |-> EmptyDict]
  /\ programs = <<>>
  /\ store = EmptyDict
  /\ quarantine = EmptyDict
  /\ clock = 0
  /\ last = NoCall
  /\ twin = <<>>
  /\ todoA = <<>>
  /\ todoB = <<>>
  /\ run = NoRun

\* matcher.py:306-338 : one iteration of the loop, from Stage B on
ExamineOne ==
  /\ call.op = "examine"
  /\ ~ret.done
  /\ ret' = [done |-> TRUE, value |-> Evaluated(call.candidate, call.doc, call.rows_list)]
  /\ UNCHANGED <<fuzz, call, programs, store, quarantine, clock, last, twin, todoA, todoB, run>>

NextSanity == ExamineOne

SpecSanity == InitSanity /\ [][NextSanity]_vars

(***************************************************************************)
(* SemanticValidator.validate_row and the rules it composes                *)
(* (processors/validator.py).  match_score and accuracy_confidence are in  *)
(* thousandths.                                                            *)
(***************************************************************************)
\* count_pattern, one sequence of items for each way through its choices
CountPatterns ==
  { << Lit(<<<<"b">>>>), Cls(ReSpace \cup {":"}, 0, 0 - 1, TRUE), AnyBut(Digits, 0, 0 - 1, TRUE),
       Cls(Digits, 1, 0 - 1, TRUE) >>,
    << Lit(<<<<"b">>>>), Cls(ReSpace, 0, 0 - 1, TRUE), Cls({":"}, 0, 1, TRUE),
       AnyBut(Digits, 0, 0 - 1, TRUE), Cls(Digits, 1, 0 - 1, TRUE) >>,
    << Lit(<<<<"l","o","c","u","r","i">>>>), AnyBut(Digits, 0, 0 - 1, TRUE), Cls(Digits, 1, 0 - 1, TRUE) >>,
    << Lit(<<<<"l","o","c","u","r","i">>>>), Cls(ReSpace, 1, 0 - 1, TRUE), Lit(<<<<"l","a">>>>), Cls(ReSpace, 1, 0 - 1, TRUE),
       Lit(<<<<"b","u","g","e","t">>>>), AnyBut(Digits, 0, 0 - 1, TRUE), Cls(Digits, 1, 0 - 1, TRUE) >>,
    << Cls(Digits, 1, 0 - 1, TRUE), Cls(ReSpace, 0, 0 - 1, TRUE),
       Lit(<<<<"l","o","c","u","r","i">>, <<"c","u"," ","t","a","x","a~">>, <<"t","a","x","a~">>>>) >>,
    << Lit(<<<<"b",":">>>>), Cls(ReSpace, 0, 0 - 1, TRUE), Cls(Digits, 1, 0 - 1, TRUE),
       Cls(ReSpace, 0, 0 - 1, TRUE), Lit(<<<<"t",":">>>>), Cls(ReSpace, 0, 0 - 1, TRUE),
       Cls(Digits, 1, 0 - 1, TRUE) >> }

\* noise_pattern
NoisePatterns ==
  { << Bos, Cls(ReSpace, 0, 0 - 1, TRUE), Cls({">", "!", "*"}, 1, 0 - 1, TRUE) >>,
    << Cls({"*", "!"}, 2, 0 - 1, TRUE) >>,
    << Lit(<<<<"n","o","u","!">>>>) >>,
    << Lit(<<<<"a","d","m","i","t","e","r","e","a">>>>), AnyBut({"\n"}, 0, 0 - 1, TRUE), Lit(<<<<"l","i","c","e","n","t,","a~">>>>) >> }

\* SemanticValidator.validate_name_hygiene
validate_name_hygiene(row) ==
  IF Get(row, "name", NoneS) \in {NoneS, <<>>}
    THEN [status |-> "FAIL", reason |-> "Missing name"]
  ELSE IF \E pat \in NoisePatterns : Search(pat, row.name)
    THEN [status |-> "REVIEW", reason |-> "Name contains UI noise"]
  ELSE IF \E pat \in CountPatterns : Search(pat, row.name)
    THEN [status |-> "REVIEW", reason |-> "Name contains embedded counts"]
  ELSE [status |-> "PASS", reason |-> "Clean name"]

\* the thresholds of validate_spots_evidence
EvidenceMatchFloor == 750

EvidenceScoreFloor == 20

TableConfidenceFloor == 800

\* validator.py:174-178 : the entry is strong and holds a value for a seat count the row has
Supports(e, spots_budget, spots_tax) ==
  /\ Get(e, "match_score", 0) >= EvidenceMatchFloor
  /\ Get(e, "score", 0) >= EvidenceScoreFloor
  /\ \/ spots_budget # NoneN /\ Get(Get(e, "value", EmptyDict), "budget", NoneN) # NoneN
     \/ spots_tax # NoneN /\ Get(Get(e, "value", EmptyDict), "tax", NoneN) # NoneN

\* SemanticValidator.validate_spots_evidence
SpotsEvidence(row, spots_budget, spots_tax, evidence_list) ==
  IF spots_budget = NoneN /\ spots_tax = NoneN
    THEN [status |-> "PASS", reason |-> "No numeric spots to validate"]
  ELSE IF \/ \E i \in 1..Len(evidence_list) : Supports(evidence_list[i], spots_budget, spots_tax)
          \/ /\ Get(row, "source_type", NoneS) = <<"h","t","m","l","_","t","a","b","l","e","_","p","a","r","s","e","d">>
             /\ Get(row, "accuracy_confidence", 0) >= TableConfidenceFloor
    THEN [status |-> "PASS", reason |-> "Verified spots"]
  ELSE [status |-> "REJECT", reason |-> "Spots unverified by high-quality evidence"]

validate_spots_evidence(row) ==
  SpotsEvidence(row, Get(row, "spots_budget", NoneN), Get(row, "spots_tax", NoneN),
                Get(Get(row, "evidence", EmptyDict), "spots", <<>>))

\* SemanticValidator.validate_identifiers
validate_identifiers(row) ==
  IF Get(row, "program_id", NoneS) \in {NoneS, <<>>}
    THEN [status |-> "REJECT", reason |-> "Missing program_id"]
  ELSE IF Get(row, "admission_year", NoneN) \in {NoneN, 0}
    THEN [status |-> "REJECT", reason |-> "Missing admission_year"]
  ELSE [status |-> "PASS", reason |-> "Identifiers present"]

\* validator.py:220-230 : the identifier and evidence rules
RowAfterHygiene(id_res, spots_res) ==
  IF id_res.status = "REJECT" THEN [status |-> "REVIEW", reason |-> id_res.reason]
  ELSE IF spots_res.status = "REJECT" THEN spots_res
  ELSE [status |-> "PASS", reason |-> "All checks passed"]

\* validator.py:207-215 : the name rules
RowAfterName(row, name_res, hygiene_res) ==
  IF name_res.status = "FAIL" THEN name_res
  ELSE IF hygiene_res.status \in {"FAIL", "REJECT"} THEN hygiene_res
  ELSE RowAfterHygiene(validate_identifiers(row), validate_spots_evidence(row))

\* SemanticValidator.validate_row
validate_row(row) ==
  RowAfterName(row, validate_program_name(Get(row, "name", <<>>)), validate_name_hygiene(row))

\* names of the rows of the validate_row runs
RowNames ==
  { Informatica, Automatica, Contact, <<"I","n","f","o","r","m","a","t","i","c","a"," ","2","5"," ","l","o","c","u","r","i">>, <<"N","O","U","!"," ","I","n","f","o","r","m","a","t","i","c","a">>,
    <<"B","i","o","l","o","g","i","e"," ","2">>, <<"I","n","f","o","r","m","a","t","i","c","a"," ","*","*"," ","z","i">>, <<"I","n","g","i","n","e","r","i","e"," ","B",":"," ","2","0"," ","T",":"," ","5">>, <<"A","d","m","i","t","e","r","e","a"," ","l","a"," ","L","I","C","E","N","T,","A~">>, <<"D","r","e","p","t"," ","1","0"," ","c","u"," ","t","a","x","a~">> }

\* entries of evidence.spots
EvidenceEntries ==
  { [match_score |-> m, score |-> s, value |-> v] :
      m \in {700, 750}, s \in {16, 20},
      v \in { [budget |-> 25, tax |-> 10], [budget |-> NoneN, tax |-> NoneN] } }
  \cup { [source |-> <<"H","T","M","L"," ","S","c","r","a","p","e","r">>] }

\* most entries of evidence.spots in the validate_row runs
MaxEvidence == 1

EvidenceLists == UNION { [1..n -> EvidenceEntries] : n \in 0..MaxEvidence }

\* the rows validate_row is called with
ValidatedRows ==
  { nm @@ pid @@ yr @@ sp @@ ev @@ st :
      nm \in { EmptyDict } \cup { [name |-> n] : n \in RowNames },
      pid \in { EmptyDict, [program_id |-> <<"e","a","c","e","0","9","d","5">>] },
      yr \in { EmptyDict, [admission_year |-> AdmissionYear] },
      sp \in { EmptyDict, [spots_budget |-> 25, spots_tax |-> NoneN],
               [spots_budget |-> NoneN, spots_tax |-> 10] },
      ev \in { EmptyDict } \cup { [evidence |-> [spots |-> es]] : es \in EvidenceLists \ {<<>>} },
      st \in { EmptyDict, [source_type |-> <<"h","t","m","l","_","t","a","b","l","e","_","p","a","r","s","e","d">>, accuracy_confidence |-> 800],
               [source_type |-> <<"h","t","m","l","_","t","a","b","l","e","_","p","a","r","s","e","d">>, accuracy_confidence |-> 700] } }

(***************************************************************************)
(* Specification SpecRow: validate_row on one row.                         *)
(***************************************************************************)
InitRow ==
  /\ \E row \in ValidatedRows : call = [op |-> "validate_row", row |-> row]
  /\ ret = NotRun
  /\ fuzz = [ts |-> EmptyDict, pr |-> EmptyDict]
  /\ programs = <<>>
  /\ store = EmptyDict
  /\ quarantine = EmptyDict
  /\ clock = 0
  /\ last = NoCall
  /\ twin = <<>>
  /\ todoA = <<>>
  /\ todoB = <<>>
  /\ run = NoRun

ValidateRow ==
  /\ call.op = "validate_row"
  /\ ~ret.done
  /\ ret' = [done |-> TRUE, value |-> validate_row(call.row)]
  /\ UNCHANGED <<fuzz, call, programs, store, quarantine, clock, last, twin, todoA, todoB, run>>

NextRow == ValidateRow

SpecRow == InitRow /\ [][NextRow]_vars

(***************************************************************************)
(* PDFTruthRanker.rank_candidates for any target type                      *)
(* (enrichment/pdf_ranker.py:26-70)                                        *)
(***************************************************************************)
\* 1. Year Relevance
YearScoreFor(target_type, text, url) ==
  IF Contains(text, Str(AdmissionYear)) \/ Contains(url, Str(AdmissionYear)) THEN 10
  ELSE IF Contains(text, Str(AdmissionYear - 1)) \/ Contains(url, Str(AdmissionYear - 1))
    THEN (IF target_type = "RESULTS" THEN 8 ELSE 5)
  ELSE 0

\* 2. Target Type Keywords
TargetBoost(target_type, text, url) ==
  IF target_type \in DOMAIN DocTypes
     /\ (AnyIn(DocTypes[target_type], text) \/ AnyIn(DocTypes[target_type], url))
    THEN 15 ELSE 0

\* 3. negative_types
NegativeTypes(target_type) ==
  IF target_type = "SPOTS" THEN DocTypes.GUIDE \cup DocTypes.EXAM \cup DocTypes.RESULTS
  ELSE IF target_type = "RESULTS" THEN DocTypes.GUIDE \cup DocTypes.EXAM \cup DocTypes.SPOTS
  ELSE {}

\* the score of lower-cased link text and url
StageAFor(target_type, text, url) ==
  YearScoreFor(target_type, text, url) + TargetBoost(target_type, text, url)
  - (IF AnyIn(NegativeTypes(target_type), text) THEN 10 ELSE 0)
  - (IF AnyIn(DocTypes.CALENDAR, text) THEN 20 ELSE 0)

\* PDFTruthRanker.rank_candidates(candidates, target_type)
rank_candidates_for(candidates, target_type) ==
  SortByStageA([i \in 1..Len(candidates) |->
                  Put(candidates[i], "stage_a_score",
                      StageAFor(target_type, Lower(StrOrEmpty(candidates[i], "link_text")),
                                Lower(UrlOf(candidates[i]))))])

\* candidates of the ranking runs: the two of test_doctype_ranking, a guide of
\* the prior year, a link whose url alone names a guide, a calendar, a link
\* whose url alone names the seats of the prior year
RankCandidates ==
  { [link_text |-> <<"R","e","z","u","l","t","a","t","e"," ","A","d","m","i","t","e","r","e"," ","2","0","2","6">>, url |-> <<"r","e","s",".","p","d","f">>],
    [link_text |-> <<"C","i","f","r","a"," ","d","e"," ","s","c","o","l","a","r","i","z","a","r","e"," ","2","0","2","6">>, url |-> <<"s","p","o","t","s",".","p","d","f">>],
    [link_text |-> <<"R","e","g","u","l","a","m","e","n","t"," ","2","0","2","5">>, pdf_url |-> <<"h","t","t","p",":","/","/","t","e","s","t",".","c","o","m","/","r",".","p","d","f">>],
    [link_text |-> <<"L","o","c","u","r","i"," ","2","0","2","6">>, pdf_url |-> <<"h","t","t","p",":","/","/","t","e","s","t",".","c","o","m","/","r","e","g","u","l","a","m","e","n","t","/","l",".","p","d","f">>],
    [link_text |-> <<"C","a","l","e","n","d","a","r"," ","r","e","z","u","l","t","a","t","e"," ","2","0","2","6">>, pdf_url |-> <<"h","t","t","p",":","/","/","t","e","s","t",".","c","o","m","/","c",".","p","d","f">>],
    [link_text |-> <<"L","i","s","t","a">>, pdf_url |-> <<"h","t","t","p",":","/","/","t","e","s","t",".","c","o","m","/","c","i","f","r","a","_","2","0","2","5",".","p","d","f">>] }

\* most candidates of a ranking run
MaxRanked == 3

TargetTypes == {"SPOTS", "RESULTS", "GUIDE", "OTHER"}

(***************************************************************************)
(* Specification SpecRank: one call of rank_candidates.                    *)
(***************************************************************************)
InitRank ==
  /\ \E n \in 0..MaxRanked : \E cands \in [1..n -> RankCandidates] : \E t \in TargetTypes :
        call = [op |-> "rank_candidates", candidates |-> cands, target_type |-> t]
  /\ ret = NotRun
  /\ fuzz = [ts |-> EmptyDict, pr |-> EmptyDict]
  /\ programs = <<>>
  /\ store = EmptyDict
  /\ quarantine = EmptyDict
  /\ clock = 0
  /\ last = NoCall
  /\ twin = <<>>
  /\ todoA = <<>>
  /\ todoB = <<>>
  /\ run = NoRun

RankCandidatesFor ==
  /\ call.op = "rank_candidates"
  /\ ~ret.done
  /\ ret' = [done |-> TRUE, value |-> rank_candidates_for(call.candidates, call.target_type)]
  /\ UNCHANGED <<fuzz, call, programs, store, quarantine, clock, last, twin, todoA, todoB, run>>

NextRank == RankCandidatesFor

SpecRank == InitRank /\ [][NextRank]_vars

(***************************************************************************)
(* Specification SpecArbitrate: one HTML record under a sequence of        *)
(* _fuse_data calls whose sources name it, some without seat counts.       *)
(***************************************************************************)
\* a row PDFParser emits for a name without seat counts (pdf_parser.py:232-240)
RowNameOnly ==
  [program_name |-> Informatica, spots_budget |-> NoneN, spots_tax |-> NoneN, level |-> LvlLicenta,
   domain |-> NoneS, raw_row |-> <<"P","r","o","g","r","a","m","u","l",":"," ","I","n","f","o","r","m","a","t","i","c","a">>, page |-> 1]

\* a table row with one seat count (pdf_parser.py:134-146)
RowBudgetOnly ==
  [program_name |-> Informatica, spots_budget |-> 90, spots_tax |-> NoneN, level |-> LvlLicenta,
   domain |-> NoneS, raw_row |-> <<"[","'","I","n","f","o","r","m","a","t","i","c","a","'",","," ","'","9","0","'",","," ","'","'","]">>, page |-> 2]

ArbitrateSources ==
  { [url |-> <<"h","t","t","p",":","/","/","t","e","s","t",".","c","o","m","/","s","t","r","o","n","g",".","p","d","f">>, link_text |-> <<"S","t","r","o","n","g"," ","P","D","F">>, score |-> 12,
     rows |-> <<RowStrong>>],
    [url |-> <<"h","t","t","p",":","/","/","t","e","s","t",".","c","o","m","/","w","e","a","k",".","p","d","f">>, link_text |-> <<"W","e","a","k"," ","P","D","F">>, score |-> 10,
     rows |-> <<RowWeak>>],
    [url |-> <<"h","t","t","p",":","/","/","t","e","s","t",".","c","o","m","/","p","l","a","n",".","p","d","f">>, link_text |-> <<"P","l","a","n">>, score |-> 20,
     rows |-> <<RowNameOnly>>],
    [url |-> <<"h","t","t","p",":","/","/","t","e","s","t",".","c","o","m","/","l","i","s","t","a",".","p","d","f">>, link_text |-> <<"L","i","s","t","a">>, score |-> 5,
     rows |-> <<RowNameOnly>>],
    [url |-> <<"h","t","t","p",":","/","/","t","e","s","t",".","c","o","m","/","b","u","g","e","t",".","p","d","f">>, link_text |-> <<"B","u","g","e","t">>, score |-> 16,
     rows |-> <<RowBudgetOnly>>] }

\* most sources fused in the arbitration runs
MaxFusions == 3

InitArbitrate ==
  /\ programs = <<ProgInformatica>>
  /\ fuzz = [ts |-> EmptyDict, pr |-> EmptyDict]
  /\ store = SaveAll(EmptyDict, Slug, programs, 1)
  /\ quarantine = EmptyDict
  /\ clock = 0
  /\ last = NoCall
  /\ call = NoCall
  /\ ret = NotRun
  /\ twin = <<>>
  /\ todoA = <<>>
  /\ todoB = <<>>
  /\ run = NoRun

\* one call self._fuse_data(slug, programs, rows, url, faculty_uid, None, score, link_text)
FuseNamed(src) ==
  /\ clock < MaxFusions
  /\ Returned(src, fuse_data(programs, store, quarantine, Slug, src, FacultyUid, clock + 1))
  /\ clock' = clock + 1
  /\ UNCHANGED <<fuzz, call, ret, twin, todoA, todoB, run>>

NextArbitrate == \E src \in ArbitrateSources : FuseNamed(src)

SpecArbitrate == InitArbitrate /\ [][NextArbitrate]_vars

(***************************************************************************)
(* Specification SpecAssign: two HTML records of one level under the       *)
(* _fuse_data calls of Spec.                                               *)
(***************************************************************************)
InitAssign ==
  /\ programs = <<ProgInformatica, ProgAutomatica>>
  /\ fuzz \in FuzzTables(Unequal(ProgramNames(programs), PassingRowNames),
                         SimValues \X SimValues)
  /\ store = SaveAll(EmptyDict, Slug, programs, 1)
  /\ quarantine = EmptyDict
  /\ clock = 0
  /\ last = NoCall
  /\ call = NoCall
  /\ ret = NotRun
  /\ twin = <<>>
  /\ todoA = <<>>
  /\ todoB = <<>>
  /\ run = NoRun

SpecAssign == InitAssign /\ [][Next]_vars

(***************************************************************************)
(* Properties                                                              *)
(***************************************************************************)
\* prog.get("evidence", {}).get("spots", [])
Spots(prog) == Get(Get(prog, "evidence", EmptyDict), "spots", <<>>)

\* the materialized seat counts and the score they were chosen with
Materialized(prog) ==
  <<Get(prog, "spots_budget", NoneN), Get(prog, "spots_tax", NoneN), CurrentScore(prog)>>

\* content score + 10 * match score of a log entry, in hundredths
EntryTotal(entry) == 100 * entry.score + entry.match_score

\* the last call matched the records and accepted a match for record i
FusedLast(h, i) ==
  h.mode = "html" /\ h.results[i].match # NoneRow /\ h.results[i].score > 650

(* C1: Arbitration is order-independent: fusing one set of accepted candidates
   with pairwise distinct (content_score, match_score) into the same un-fused
   record in any two orders ends with the same spots_budget, spots_tax and
   best_source_score. *)
C1_OrderIndependent ==
  (todoA = <<>> /\ todoB = <<>> /\ twin # <<>> /\ clock > 0)
    => Materialized(programs[1]) = Materialized(twin[1])

(* C2: Whenever a record's evidence log is non-empty, best_source_score is the
   maximum over the log of score + 10 * match_score, and spots_budget/spots_tax
   are the values of a log entry that attains it; best_source_score never
   decreases. *)
C2_Recomputable ==
  /\ [](\A i \in 1..Len(programs) :
          LET p == programs[i]
              log == Spots(p)
          IN  log # <<>> =>
                /\ \A k \in 1..Len(log) : EntryTotal(log[k]) <= CurrentScore(p)
                /\ \E k \in 1..Len(log) :
                     /\ EntryTotal(log[k]) = CurrentScore(p)
                     /\ p.spots_budget = log[k].value.budget
                     /\ p.spots_tax = log[k].value.tax)
  /\ [][\A i \in 1..Len(programs) :
          CurrentScore(programs'[i]) >= CurrentScore(programs[i])]_vars

\* a record whose log holds a later entry that lost against an earlier one
C2_Witness ==
  \E i \in 1..Len(programs) :
     /\ Len(Spots(programs[i])) >= 2
     /\ EntryTotal(Spots(programs[i])[Len(Spots(programs[i]))]) < CurrentScore(programs[i])

(* C3: evidence.spots is append-only: a call that accepts a match for a record
   appends exactly one entry to its log and leaves the earlier entries as they
   were, also when arbitration keeps the materialized values; a call that
   accepts none leaves the log as it was. *)
C3_AppendOnly ==
  [][\A i \in 1..Len(programs) :
       LET old == Spots(programs[i])
           new == Spots(programs'[i])
       IN  IF FusedLast(last', i)
             THEN Len(new) = Len(old) + 1 /\ SubSeq(new, 1, Len(old)) = old
             ELSE new = old]_vars

\* an accepted match was logged although it lost the arbitration
C3_Witness ==
  \E i \in 1..Len(programs) :
     /\ FusedLast(last, i)
     /\ 100 * last.score + last.results[i].score < CurrentScore(programs[i])
     /\ Spots(programs[i])[Len(Spots(programs[i]))].source = last.url

(* C4: Fusing the HTML record {name "Automatica", level "Licenta"} with the PDF
   row {program_name "Automatica", spots_budget 50, spots_tax 20, level
   "Licenta"} gives a match score above 0.65 and leaves the record with
   spots_budget 50, spots_tax 20, metadata.pdf_match_score set and an evidence
   log of length 1. *)
C4_FusionScenario ==
  (clock = 1 /\ Len(programs) = 1 /\ programs[1].uid = ProgAutomatica.uid
     /\ last.url = <<"h","t","t","p",":","/","/","f","a","k","e",".","p","d","f">>)
    => /\ last.mode = "html"
       /\ last.results[1].score > 650
       /\ Get(programs[1], "spots_budget", NoneN) = 50
       /\ Get(programs[1], "spots_tax", NoneN) = 20
       /\ "pdf_match_score" \in DOMAIN Get(programs[1], "metadata", EmptyDict)
       /\ Len(Spots(programs[1])) = 1

\* the same log entry but for its timestamp
SameObservation(e, f) == [e EXCEPT !.timestamp = 0] = [f EXCEPT !.timestamp = 0]

(* C5: Fusing a source again into records it was already fused into leaves
   spots_budget, spots_tax, best_source_score, the winning metadata and the
   confidence unchanged; each record that accepted the source gets one more
   log entry, a duplicate of the earlier one, and a record that did not accept
   it when the same call is repeated is not changed in its spots data. *)
C5_Idempotent ==
  [][\A i \in 1..Len(programs) :
       LET old == Spots(programs[i])
           new == Spots(programs'[i])
           before == {k \in 1..Len(old) : old[k].source = last'.url}
       IN  /\ before # {} =>
                /\ Materialized(programs'[i]) = Materialized(programs[i])
                /\ programs'[i].metadata = programs[i].metadata
                /\ programs'[i].accuracy_confidence = programs[i].accuracy_confidence
                /\ Len(new) = Len(old) + 1
                /\ SubSeq(new, 1, Len(old)) = old
                /\ \E k \in before : SameObservation(new[Len(new)], old[k])
           /\ (last.mode # "none" /\ last.url = last'.url /\ before = {}) =>
                /\ Materialized(programs'[i]) = Materialized(programs[i])
                /\ new = old]_vars

\* a record that holds two log entries of one source
C5_Witness ==
  \E i \in 1..Len(programs) :
     \E j, k \in 1..Len(Spots(programs[i])) :
        /\ j < k
        /\ Spots(programs[i])[j].source = Spots(programs[i])[k].source
        /\ Spots(programs[i])[k].source = last.url

(* C6: When the records are matched, a record's best match is fused if and only
   if it exists and scores above 0.65, whatever its status (an "ambiguous"
   match above the threshold is fused and, when it wins, recorded in
   metadata.match_status); a record whose best score is at most 0.65 keeps
   spots_budget, spots_tax, evidence.spots and best_source_score; either way
   the record is saved with program_id, admission_year and the faculty
   identity filled in. *)
C6_AcceptanceByScore ==
  [][last'.mode = "html" =>
       \A i \in 1..Len(programs) :
          LET r == last'.results[i]
              p == programs[i]
              q == programs'[i]
              wins == 100 * last'.score + r.score > CurrentScore(p)
          IN  /\ IF r.match # NoneRow /\ r.score > 650
                   THEN /\ Len(Spots(q)) = Len(Spots(p)) + 1
                        /\ Spots(q)[Len(Spots(q))].source = last'.url
                        /\ wins => /\ q.metadata.match_status = r.status
                                   /\ q.spots_budget = Get(r.match, "spots_budget", 0)
                        /\ ~wins => Materialized(q) = Materialized(p)
                   ELSE /\ Materialized(q) = Materialized(p)
                        /\ ("spots_budget" \in DOMAIN q) = ("spots_budget" \in DOMAIN p)
                        /\ Get(q, "evidence", EmptyDict) = Get(p, "evidence", EmptyDict)
              /\ store'[<<Slug, q.uid>>] = q
              /\ "program_id" \in DOMAIN q /\ q.program_id # NoneS
              /\ "admission_year" \in DOMAIN q /\ q.admission_year > 0
              /\ q.faculty_uid = FacultyUid /\ q.faculty_slug = Slug]_vars

\* an ambiguous match above the threshold was fused and won
C6_Witness ==
  \E i \in 1..Len(programs) :
     /\ FusedLast(last, i)
     /\ last.results[i].status = "ambiguous"
     /\ programs[i].metadata.match_status = "ambiguous"
     /\ programs[i].metadata.pdf_source = last.url

\* a level that names the bachelor cycle / the master cycle
DeclaresBachelor(level) ==
  \/ Contains(Lower(level), Licenta) \/ Contains(Lower(level), LicentaDia)
  \/ Contains(Lower(level), <<"b","a","c","h","e","l","o","r">>)

DeclaresMaster(level) == Contains(Lower(level), Master)

(* C7: Level hard filter: when the HTML record and the PDF row both declare a
   level and they disagree (one bachelor/licenta, the other master),
   _calculate_match_score returns exactly 0. *)
C7_LevelHardFilter ==
  (ret.done /\ call.op = "find_best_match") =>
    \A i \in 1..Len(call.pdf_rows) :
       LET hl == StrOrEmpty(call.html_prog, "level")
           pl == StrOrEmpty(call.pdf_rows[i], "level")
       IN  ((DeclaresBachelor(hl) /\ DeclaresMaster(pl))
              \/ (DeclaresMaster(hl) /\ DeclaresBachelor(pl)))
             => ret.scores[i] = 0

\* the scores above the 0.01 floor, the best of them and the runner-up
AboveFloor(scores) == {i \in 1..Len(scores) : scores[i] > 10}

TopIndex(scores) ==
  CHOOSE i \in AboveFloor(scores) :
     /\ \A j \in AboveFloor(scores) : scores[j] <= scores[i]
     /\ \A j \in AboveFloor(scores) : j < i => scores[j] < scores[i]

SecondScore(scores) ==
  LET others == AboveFloor(scores) \ {TopIndex(scores)}
  IN  scores[CHOOSE i \in others : \A j \in others : scores[j] <= scores[i]]

(* C8 (as stated): the status is "no_match" exactly when no row scores above
   0.01; otherwise "ambiguous" when the gap between the top two scores is
   below 0.15, "low_confidence" when the top score is below 0.5, "match"
   otherwise. *)
C8_StatusAsStated ==
  (ret.done /\ call.op = "find_best_match") =>
    LET s == ret.scores
        top == s[TopIndex(s)]
    IN  ret.value.status =
          IF AboveFloor(s) = {} THEN "no_match"
          ELSE IF Cardinality(AboveFloor(s)) > 1 /\ top - SecondScore(s) < 150
                 THEN "ambiguous"
          ELSE IF top < 500 THEN "low_confidence"
          ELSE "match"

(* C8 (amended): the first top-scoring row is returned as the match with its
   score; the status is "no_match" exactly when no row scores above 0.01;
   otherwise "low_confidence" when the top score is below 0.5, whatever the
   gap; otherwise "ambiguous" when a second row scores above 0.01 and within
   0.15 of the top; "match" otherwise. *)
C8_StatusClassification ==
  (ret.done /\ call.op = "find_best_match") =>
    LET s == ret.scores
        top == s[TopIndex(s)]
    IN  /\ ret.value.status =
             IF AboveFloor(s) = {} THEN "no_match"
             ELSE IF top < 500 THEN "low_confidence"
             ELSE IF Cardinality(AboveFloor(s)) > 1 /\ top - SecondScore(s) < 150
                    THEN "ambiguous"
             ELSE "match"
        /\ IF AboveFloor(s) = {}
             THEN ret.value.match = NoneRow /\ ret.value.score = 0
             ELSE /\ ret.value.match = call.pdf_rows[TopIndex(s)]
                  /\ ret.value.score = top

\* two rows within 0.15 of each other, the best of them below 0.5
C8_Witness ==
  /\ ret.done /\ call.op = "find_best_match"
  /\ Cardinality(AboveFloor(ret.scores)) > 1
  /\ ret.scores[TopIndex(ret.scores)] < 500
  /\ ret.scores[TopIndex(ret.scores)] - SecondScore(ret.scores) < 150
  /\ ret.value.status = "low_confidence"

(* C9: Every heuristic score stays in its range: the score of
   validate_program_name in 0..100, the score of _calculate_match_score in
   0..1, and the likelihood_score of every evidence entry and every
   accuracy_confidence the fusion sets in 0..1. *)
C9_ScoresInRange ==
  /\ last.mode # "none" =>
       /\ \A i \in 1..Len(last.verdicts) :
             last.verdicts[i].score >= 0 /\ last.verdicts[i].score <= 100
       /\ \A i \in 1..Len(last.results) :
             last.results[i].score >= 0 /\ last.results[i].score <= 1000
  /\ \A p \in Range(programs) \cup {store[k] : k \in DOMAIN store} :
       /\ \A k \in 1..Len(Spots(p)) :
             Spots(p)[k].likelihood_score >= 0 /\ Spots(p)[k].likelihood_score <= 10000
       /\ "accuracy_confidence" \in DOMAIN p =>
             p.accuracy_confidence >= 0 /\ p.accuracy_confidence <= 10000

\* a call that validated rows, matched them and logged evidence of a top-priority source
C9_Witness ==
  /\ last.mode = "html"
  /\ \E i \in 1..Len(programs) :
        /\ FusedLast(last, i)
        /\ last.results[i].score = 1000
        /\ programs[i].accuracy_confidence > 0

(* C10: For a name that passes the rejection checks the score is 20, plus 20 if
   a token starts with a positive keyword, plus 15 if a token ends with a
   program suffix, plus 10 for two or more tokens, plus 10 if the name is
   title-cased; the verdict is PASS iff score >= 45, QUARANTINE iff
   30 <= score < 45, FAIL otherwise. *)
C10_ScoreAndDecision ==
  (ret.done /\ call.op = "validate_program_name") =>
    LET v == ret.value
        tokens == Split(NormalizeText(call.name))
        keyword == \E t \in Range(tokens) : \E k \in Range(POSITIVE_KEYWORDS) : StartsWith(t, k)
        suffix == \E t \in Range(tokens) : \E k \in Range(PROGRAM_SUFFIXES) : EndsWith(t, k)
        expected == 20 + (IF keyword THEN 20 ELSE 0) + (IF suffix THEN 15 ELSE 0)
                       + (IF Len(tokens) >= 2 THEN 10 ELSE 0)
                       + (IF IsTitle(call.name) THEN 10 ELSE 0)
    IN  /\ v.reason \in {"Good score", "Low confidence", "Low score"} => v.score = expected
        /\ (v.status = "PASS") = (v.score >= 45)
        /\ (v.status = "QUARANTINE") = (v.score >= 30 /\ v.score < 45)
        /\ (v.status = "FAIL") = (v.score < 30)
        /\ (v.reason \in {"Good score", "Low confidence", "Low score"}
              /\ keyword /\ Len(tokens) >= 2 /\ IsTitle(call.name))
             => v.status = "PASS"

\* a title-cased two-token name with a positive keyword passed, scoring 60
C10_Witness ==
  /\ ret.done /\ call.op = "validate_program_name"
  /\ ret.value.status = "PASS"
  /\ ret.value.score = 60
  /\ Len(Split(NormalizeText(call.name))) = 2
  /\ IsTitle(call.name)

(***************************************************************************)
(* Claims about clean_text, _enrich_faculty, enrich_run and _fuse_data     *)
(***************************************************************************)
\* the line is on more than threshold_ratio of the pages, each page counted once
FrequentLine(line, pages) ==
  10 * Cardinality({ i \in 1..Len(pages) : line \in Range(PageLines(pages[i])) })
    > ThresholdTenths * Len(pages)

\* the stripped non-empty lines of all pages, in order, without the frequent ones
RECURSIVE KeptLines(_, _)
KeptLines(pages, i) ==
  IF i > Len(pages) THEN <<>>
  ELSE SelectSeq(PageLines(pages[i]), LAMBDA l : ~FrequentLine(l, pages))
         \o KeptLines(pages, i + 1)

\* C11: for two or more pages, the lines of the text clean_text returns are the
\* stripped non-empty lines of the pages in their original order, without
\* exactly those lines that are on more than 0.6 of the pages (a page counted
\* once however often the line repeats on it).
C11_BoilerplateRemoval ==
  (ret.done /\ call.op = "clean_text" /\ Len(call.pages) >= 2)
    => SelectSeq(SplitLines(ret.value), LAMBDA l : l # <<>>) = KeptLines(call.pages, 1)

\* five pages: "H" on four of them is removed, "y" on three of them (3/5 = 0.6)
\* and "x", on three of them and twice on one, are retained
C11_Witness ==
  /\ ret.done
  /\ call.op = "clean_text"
  /\ Len(call.pages) = 5
  /\ FrequentLine(<<"H">>, call.pages)
  /\ Cardinality({ i \in 1..5 : <<"y">> \in Range(PageLines(call.pages[i])) }) = 3
  /\ Cardinality({ i \in 1..5 : <<"x">> \in Range(PageLines(call.pages[i])) }) = 3
  /\ \E i \in 1..5 : Len(SelectSeq(PageLines(call.pages[i]), LAMBDA l : l = <<"x">>)) = 2
  /\ <<"H">> \notin Range(SplitLines(ret.value))
  /\ <<"y">> \in Range(SplitLines(ret.value))
  /\ <<"x">> \in Range(SplitLines(ret.value))

\* the faculties _enrich_faculty has been called for and has left
EndedFaculties ==
  Range(run.finished) \cup (IF run.pc \in {"finished", "raised"} THEN {run.cur} ELSE {})

\* the candidate has a local document, a content_score >= -5 and rows that pass
\* the sanity filter
SanityPass(raw_rows, valid_rows) ==
  raw_rows # <<>> /\ valid_rows # <<>> /\ 2 * Len(valid_rows) >= Len(raw_rows)

UsableDocument(doc) ==
  doc.content_score >= 0 - 5 /\ doc.extract = "rows" /\ SanityPass(doc.rows, SanityRows(doc.rows))

Qualifies(candidate) ==
  /\ "local_path" \in DOMAIN candidate
  /\ candidate.local_path \in DOMAIN Pdfs
  /\ UsableDocument(Pdfs[candidate.local_path])

UrlsOf(cands) == [i \in 1..Len(cands) |-> UrlOf(cands[i])]

\* C12: when _enrich_faculty has ended, every ranked candidate that has a local
\* document, a content_score >= -5 and rows passing the sanity filter has been
\* fused, in Stage-A rank order, and no source is fused while a candidate is
\* still to be examined.
C12_AllSourcesFused ==
  /\ \A f \in EndedFaculties : f.fused = UrlsOf(SelectSeq(f.ranked, Qualifies))
  /\ run.pc = "run" /\ run.cur.pc = "fuse" => run.cur.cands = <<>>

\* C13: a faculty whose candidates were ranked examines every one of them and
\* returns, whatever fails for a single candidate.
C13_CandidateFailureLocal ==
  \A f \in EndedFaculties :
     f.ranked # <<>> => f.pc = "done" /\ Len(f.examined) = Len(f.ranked)

\* C14: when enrich_run has ended, _enrich_faculty has been called for every
\* faculty of the list, whatever happened to the faculties before it.
C14_FacultyFailureNotFatal ==
  run.pc \in {"finished", "raised"} =>
    \A i \in 1..Len(call.successful) :
       \E f \in EndedFaculties : f.slug = call.successful[i]

\* the rows of a source whose name validate_program_name gives the status
RowsWithStatus(rows, status) ==
  { rows[k] : k \in { j \in 1..Len(rows) :
                        Validate(Get(rows[j], "program_name", <<>>)).status = status } }

\* the source the call was made for
SourceOf(h) == CHOOSE src \in PdfSources : src.url = h.url

\* raw/<slug>/quarantine/<sha256(name)>.json
QuarantineKey(slug, row) == <<slug, Sha256(row.program_name)>>

\* the quarantine store after a call is the one before it plus one item, with
\* score and reason of the verdict, for each QUARANTINE row
QuarantinedBy(src, before, after) ==
  /\ DOMAIN after
       = DOMAIN before \cup { QuarantineKey(Slug, r) : r \in RowsWithStatus(src.rows, "QUARANTINE") }
  /\ \A r \in RowsWithStatus(src.rows, "QUARANTINE") :
        /\ after[QuarantineKey(Slug, r)].name = r.program_name
        /\ after[QuarantineKey(Slug, r)].score = Validate(r.program_name).score
        /\ after[QuarantineKey(Slug, r)].reason = Validate(r.program_name).reason
        /\ after[QuarantineKey(Slug, r)].raw_row = r
  /\ \A key \in DOMAIN before :
        key \notin { QuarantineKey(Slug, r) : r \in RowsWithStatus(src.rows, "QUARANTINE") }
          => after[key] = before[key]

\* what a call may add to a record's log, or synthesize, comes from PASS rows
FromPassRows(src, h, progsBefore, progsAfter, storeBefore, storeAfter) ==
  /\ \A i \in 1..Len(h.results) :
        h.results[i].match # NoneRow => h.results[i].match \in RowsWithStatus(src.rows, "PASS")
  /\ \A i \in 1..Len(progsAfter) :
        \A n \in (Len(Spots(progsBefore[i])) + 1)..Len(Spots(progsAfter[i])) :
           \E r \in RowsWithStatus(src.rows, "PASS") :
              Spots(progsAfter[i])[n].value =
                [budget |-> Get(r, "spots_budget", 0), tax |-> Get(r, "spots_tax", 0)]
  /\ h.mode = "no_rows" <=> RowsWithStatus(src.rows, "PASS") = {}
  /\ h.mode = "pdf_only" =>
        { storeAfter[key].name : key \in (DOMAIN storeAfter) \ (DOMAIN storeBefore) }
          \subseteq { r.program_name : r \in RowsWithStatus(src.rows, "PASS") }
  /\ h.mode # "pdf_only" => DOMAIN storeAfter = DOMAIN storeBefore

(* C15: In a call of _fuse_data every row is routed by validate_program_name:
   a QUARANTINE row is written to the faculty's quarantine store with its score
   and reason, a FAIL row is written nowhere, and only PASS rows are matched,
   logged as evidence or synthesized into a record. *)
C15_ValidationRouting ==
  [][clock' = clock + 1 =>
       /\ QuarantinedBy(SourceOf(last'), quarantine, quarantine')
       /\ FromPassRows(SourceOf(last'), last', programs, programs', store, store')]_vars

\* a source with a FAIL, a PASS and a QUARANTINE row was fused: the PASS row is
\* the match, the QUARANTINE row is in the store, the FAIL row is not
C15_Witness ==
  /\ last.mode = "html"
  /\ Len(last.verdicts) = 3
  /\ \E i \in 1..3 : \E j \in 1..3 : \E k \in 1..3 :
        /\ last.verdicts[i].status = "FAIL"
        /\ last.verdicts[j].status = "PASS"
        /\ last.verdicts[k].status = "QUARANTINE"
        /\ QuarantineKey(Slug, SourceOf(last).rows[k]) \in DOMAIN quarantine
        /\ QuarantineKey(Slug, SourceOf(last).rows[i]) \notin DOMAIN quarantine
        /\ \E n \in 1..Len(last.results) : last.results[n].match = SourceOf(last).rows[j]

\* the rows extract_spots returned for the candidates the faculty examined
ExtractedRows(f) ==
  UNION { Range(Pdfs[c.local_path].rows) :
            c \in { x \in Range(f.ranked) :
                      /\ "local_path" \in DOMAIN x
                      /\ x.local_path \in DOMAIN Pdfs
                      /\ Pdfs[x.local_path].content_score >= 0 - 5
                      /\ Pdfs[x.local_path].extract = "rows" } }

\* the row passed the sanity filter and the validator in a source that was fused
UsedRow(f, row) ==
  /\ Validate(row.program_name).status = "PASS"
  /\ \E c \in Range(f.ranked) :
        /\ Qualifies(c)
        /\ UrlOf(c) \in Range(f.fused)
        /\ row \in Range(SanityRows(Pdfs[c.local_path].rows))

\* C16: after a faculty has been processed, every row that was extracted from
\* its PDFs is either used or in the quarantine store with a reason.
C16_NoSilentDrops ==
  \A f \in EndedFaculties :
     f.pc = "done" =>
       \A row \in ExtractedRows(f) :
          \/ UsedRow(f, row)
          \/ /\ QuarantineKey(f.slug, row) \in DOMAIN quarantine
             /\ quarantine[QuarantineKey(f.slug, row)].reason # ""

\* the level the record of a row is to get: the one inferred from the row, or
\* "Master" when the row carries no detected level
ExpectedLevel(row) ==
  IF Get(row, "level", NoneS) \in {NoneS, <<>>} THEN <<"M","a","s","t","e","r">>
  ELSE normalize_level(row.level)

\* the records the call wrote
SavedAt(st, now) ==
  { st[key] : key \in { k \in DOMAIN st : Get(st[k], "scraped_at", 0) = now } }

(* C17: In PDF-only mode a call of _fuse_data synthesizes exactly one record
   per PASS row, and the level of the record is the level inferred from the
   row, or "Master" when the row carries no detected level. *)
C17_PdfOnlySynthesis ==
  [][(clock' = clock + 1 /\ last'.mode = "pdf_only") =>
       /\ Cardinality(SavedAt(store', clock'))
            = Cardinality({ k \in 1..Len(last'.verdicts) : last'.verdicts[k].status = "PASS" })
       /\ \A row \in RowsWithStatus(SourceOf(last').rows, "PASS") :
             \E rec \in SavedAt(store', clock') :
                /\ rec.name = row.program_name
                /\ rec.source_type = "pdf_only"
                /\ rec.level = ExpectedLevel(row)]_vars

\* C18: two stored records of one faculty whose names normalize to the same
\* string are one record: no run and no source leaves two files, or two stable
\* ids, for one (slug, normalized name).
C18_IdentityByNormalizedName ==
  \A k1 \in DOMAIN store : \A k2 \in DOMAIN store :
     (k1[1] = k2[1]
        /\ romanian_normalize(store[k1].name) = romanian_normalize(store[k2].name))
       => /\ k1 = k2
          /\ Get(store[k1], "program_id", NoneS) = Get(store[k2], "program_id", NoneS)

\* the items of the grade map whose key scores best against the record's name,
\* among those scoring at least `floor`
BestScoring(prog, grades_map, floor) ==
  { k \in 1..Len(grades_map) :
      /\ GradeScore(romanian_normalize(prog.name), grades_map[k].key) >= floor
      /\ \A j \in 1..Len(grades_map) :
            GradeScore(romanian_normalize(prog.name), grades_map[j].key)
              <= GradeScore(romanian_normalize(prog.name), grades_map[k].key) }

\* the record carries the grade and the key of one of the items
HasGradeOf(prog, grades_map, items) ==
  /\ "last_admission_grade" \in DOMAIN prog
  /\ "grade_source" \in DOMAIN Get(prog, "metadata", EmptyDict)
  /\ \E k \in items :
        /\ prog.last_admission_grade = grades_map[k].grade
        /\ prog.metadata.grade_source = grades_map[k].key

\* the seat counts, their score and the log of a record
SpotsData(prog) == <<Materialized(prog), Spots(prog)>>

(* C19: In a call of _fuse_data with a grade map, every record whose normalized
   name has a token-set ratio >= 85 against some key gets the grade and the key
   of a best-scoring key, whether or not a spots match was accepted for it, and
   its spots_budget, spots_tax, best_source_score and evidence.spots are what
   the call leaves without a grade map. *)
C19_GradeFusion ==
  [][clock' = clock + 1 =>
       \A i \in 1..Len(programs') :
          /\ BestScoring(programs[i], call.grades_map, 85) # {}
               => HasGradeOf(programs'[i], call.grades_map,
                             BestScoring(programs[i], call.grades_map, 85))
          /\ SpotsData(programs'[i])
               = SpotsData(fuse_data(programs, store, quarantine, Slug, SourceOf(last'),
                                     FacultyUid, clock').programs[i])]_vars

\* _enrich_faculty(slug) run from f to its end with nothing else running
RECURSIVE RunFaculty(_, _, _, _)
RunFaculty(f, st, q, now) ==
  IF f.pc = "examine"
    THEN RunFaculty(Examined(f, ExamineCandidate(Head(f.cands), f.rows_list)), st, q, now)
  ELSE IF f.pc = "fuse"
    THEN RunFaculty(Fused(f, FuseNext(f, st, q, now + 1)),
                    FuseNext(f, st, q, now + 1).store,
                    FuseNext(f, st, q, now + 1).quarantine, now + 1)
  ELSE [f |-> f, store |-> st, quarantine |-> q]

\* the faculty enriched alone, from the files the scraper left
Alone(slug) ==
  RunFaculty(LoadFaculty(slug, call.raw[slug]), InitialStore(call.raw), EmptyDict, 0)

\* a record without the times datetime.now() put into it
TimelessEntry(entry) == [k \in (DOMAIN entry) \ {"timestamp"} |-> entry[k]]

Timeless(prog) ==
  [k \in (DOMAIN prog) \ {"scraped_at"} |->
     IF k = "evidence" /\ "spots" \in DOMAIN prog[k]
       THEN Put(prog[k], "spots",
                [n \in 1..Len(prog[k].spots) |-> TimelessEntry(prog[k].spots[n])])
       ELSE prog[k]]

\* raw/<slug>/programs and raw/<slug>/quarantine
ProgramFiles(st, slug) ==
  [key \in { k \in DOMAIN st : k[1] = slug } |-> Timeless(st[key])]

QuarantineFiles(q, slug) == [key \in { k \in DOMAIN q : k[1] = slug } |-> q[key]]

\* the invocation for the faculty left it as the faculty enriched alone is left
AsAlone(slug, f, st, q) ==
  /\ f.pc = Alone(slug).f.pc
  /\ f.outcome = Alone(slug).f.outcome
  /\ f.fused = Alone(slug).f.fused
  /\ [i \in 1..Len(f.programs) |-> Timeless(f.programs[i])]
       = [i \in 1..Len(Alone(slug).f.programs) |-> Timeless(Alone(slug).f.programs[i])]
  /\ ProgramFiles(st, slug) = ProgramFiles(Alone(slug).store, slug)
  /\ QuarantineFiles(q, slug) = QuarantineFiles(Alone(slug).quarantine, slug)

\* C20: however the two invocations of _enrich_faculty are interleaved, when
\* both have ended each faculty has the records, the program files and the
\* quarantine files it has after being enriched alone.
C20_FacultiesIsolated ==
  (\A slug \in {Slug, SlugB} : run.procs[slug].pc \in {"done", "raised"})
    => \A slug \in {Slug, SlugB} : AsAlone(slug, run.procs[slug], store, quarantine)

\* both faculties hold the record with uid "123" and fused different sources:
\* the other faculty's call came between the two calls of the first, whose
\* first source left a row in quarantine
C20_Witness ==
  /\ \A slug \in {Slug, SlugB} : run.procs[slug].pc = "done"
  /\ Len(run.procs[Slug].fused) = 2
  /\ run.procs[SlugB].fused # <<>>
  /\ run.procs[Slug].fused # run.procs[SlugB].fused
  /\ <<Slug, ProgInformatica.uid>> \in DOMAIN store
  /\ <<SlugB, ProgInformatica.uid>> \in DOMAIN store
  /\ Spots(store[<<Slug, ProgInformatica.uid>>]) # <<>>
  /\ Spots(store[<<SlugB, ProgInformatica.uid>>]) # <<>>
  /\ Spots(store[<<SlugB, ProgInformatica.uid>>])[1].timestamp = 2
  /\ Spots(store[<<Slug, ProgInformatica.uid>>])[1].timestamp = 3
  /\ \E key \in DOMAIN quarantine : key[1] = Slug
  /\ \A key \in DOMAIN quarantine : key[1] # SlugB


\* the same study cycle named on both sides, or one level text inside the other
CompatibleLevels(hl, pl) ==
  \/ DeclaresBachelor(hl) /\ DeclaresBachelor(pl)
  \/ DeclaresMaster(hl) /\ DeclaresMaster(pl)
  \/ Contains(Lower(pl), Lower(hl)) \/ Contains(Lower(hl), Lower(pl))

\* the levels disagree: the hard level filter's case
DisagreeingLevels(hl, pl) ==
  \/ DeclaresBachelor(hl) /\ DeclaresMaster(pl)
  \/ DeclaresMaster(hl) /\ DeclaresBachelor(pl)

\* 0.5*name + 0.3*level + 0.2*domain in thousandths, the signals as stated
StatedScore(name, hl, pl, hd, pd) ==
  IF name < 30 THEN 0
  ELSE 5 * name
       + (IF hl # <<>> /\ pl # <<>> /\ CompatibleLevels(hl, pl) THEN 300
          ELSE IF hl = <<>> /\ pl = <<>> THEN 150 ELSE 0)
       + (IF hd # <<>> /\ pd # <<>> /\ partial_ratio(Lower(hd), Lower(pd)) > 80
            THEN 200 ELSE 0)

(* C21: for a pair whose levels do not disagree, _calculate_match_score returns
   0 when the name similarity (the larger of token-set ratio and partial ratio
   of the normalized, expanded names) is below 0.3, and otherwise
   0.5*name + 0.3*level + 0.2*domain, where level is 1.0 if both levels are
   declared and compatible, 0.5 if neither is declared and 0 otherwise, and
   domain is 1.0 only if both domains are declared and their partial ratio
   exceeds 0.8. *)
C21_NameFloorAndWeights ==
  (ret.done /\ call.op = "find_best_match") =>
    \A i \in 1..Len(call.pdf_rows) :
       ~DisagreeingLevels(StrOrEmpty(call.html_prog, "level"),
                          StrOrEmpty(call.pdf_rows[i], "level"))
       => ret.scores[i] =
            StatedScore(Max(token_set_ratio(NormName(StrOrEmpty(call.html_prog, "name")),
                                            NormName(StrOrEmpty(call.pdf_rows[i], "program_name"))),
                            partial_ratio(NormName(StrOrEmpty(call.html_prog, "name")),
                                          NormName(StrOrEmpty(call.pdf_rows[i], "program_name")))),
                        StrOrEmpty(call.html_prog, "level"),
                        StrOrEmpty(call.pdf_rows[i], "level"),
                        StrOrEmpty(call.html_prog, "domain"),
                        StrOrEmpty(call.pdf_rows[i], "domain"))

\* reason of the first rejection check of validate_program_name that fires on a
\* non-empty name, "none" when none does
FirstRejection(name, digits, letters, distinct, negative) ==
  IF Len(name) < 4 THEN "Too short"
  ELSE IF Len(name) > 150 THEN "Too long"
  ELSE IF 10 * digits > 4 * Len(name) THEN "High digit ratio"
  ELSE IF letters >= 6 /\ distinct <= 2 THEN "Low character diversity"
  ELSE IF negative THEN "Negative keyword"
  ELSE "none"

(* C22: validate_program_name checks, in this order, empty, length < 4,
   length > 150, digit ratio above 40%, at most 2 distinct letters among at
   least 6 letters, negative keyword, and returns FAIL with the reason of the
   first check that fires; a name of length 3 fails as too short, and a name
   with a token starting with a negative keyword is FAIL whatever else it
   has. *)
C22_RejectionOrder ==
  (ret.done /\ call.op = "validate_program_name") =>
    LET norm == NormalizeText(call.name)
        negative == \E t \in Range(Split(norm)) :
                       \E k \in Range(NEGATIVE_KEYWORDS) : StartsWith(t, k)
        first == FirstRejection(call.name, CountDigits(norm), CountAlpha(norm),
                                UniqueAlpha(norm), negative)
    IN  /\ call.name = <<>> => ret.value.status = "FAIL" /\ ret.value.reason = "Empty string"
        /\ (call.name # <<>> /\ first # "none")
             => ret.value.status = "FAIL" /\ ret.value.reason = first
        /\ (call.name # <<>> /\ first = "none")
             => ret.value.reason \in {"Good score", "Low confidence", "Low score"}
        /\ Len(call.name) = 3 => ret.value.reason = "Too short"
        /\ (call.name # <<>> /\ ret.value.status # "FAIL") => ~negative

\* a name of three digits was rejected as too short, not for its digits
C22_Witness ==
  /\ ret.done /\ call.op = "validate_program_name"
  /\ call.name = <<"1","2","3">>
  /\ ret.value.status = "FAIL" /\ ret.value.reason = "Too short"

\* the lines of the sampled pages that match the seat-count pattern, as
\* <<page, line>> pairs
LinesWithSpots(pages) ==
  { pl \in (1..Min(Len(pages), 2)) \X (1..6) :
      /\ pl[2] <= Len(pages[pl[1]].lines)
      /\ SpotMatches(pages[pl[1]].lines[pl[2]]) # {} }

\* characters per sampled page below 50
LowDensity(pages) == Len(SampleText(pages)) < 50 * Min(Len(pages), 2)

(* C23: content_score is the sum of -10 when the text density of the sampled
   pages (at most the first two) is below 50 characters per page, +5 when a
   table is extractable, and +10 plus min(count, 10) when at least one line
   matches the seat-count pattern, count being the number of such lines; a
   candidate whose content_score is below -5 is not passed to the extractor
   and contributes no rows, one with content_score >= -5 is extracted. *)
C23_StageBGate ==
  (ret.done /\ call.op = "evaluate_content" /\ call.doc.opens /\ call.doc.pages # <<>>) =>
    /\ ret.value.content_score =
         (IF LowDensity(call.doc.pages) THEN 0 - 10 ELSE 0)
         + (IF SampleHasTable(call.doc.pages) THEN 5 ELSE 0)
         + (IF LinesWithSpots(call.doc.pages) # {}
              THEN 10 + Min(Cardinality(LinesWithSpots(call.doc.pages)), 10) ELSE 0)
    /\ ret.value.content_score < 0 - 5
         => ret.examined.outcome = "poor_content" /\ ret.examined.rows_list = <<>>
    /\ ret.value.content_score >= 0 - 5
         => ret.examined.outcome = "extracted" /\ Len(ret.examined.rows_list) = 1

\* the lines of the pages of the document, page by page
DocumentLines(doc) == [i \in 1..Len(doc.pages) |-> PageLines(doc.pages[i])]

(* C24: in the text fallback of the extractor a line that appears on more than
   60% of the pages of the document is absent from the text the patterns of
   every page are matched against, and every row carries the 1-based number of
   the page its text was found on. *)
C24_BoilerplateStrippedFirst ==
  (ret.done /\ call.op = "extract_via_text" /\ call.doc.opens) =>
    /\ \A line \in BoilerplateLines(DocumentLines(call.doc)) :
         \A i \in 1..Len(call.doc.pages) : ~Contains(ret.matched[i], line)
    /\ \A k \in 1..Len(ret.value) :
         /\ ret.value[k].page \in 1..Len(call.doc.pages)
         /\ Contains(ret.matched[ret.value[k].page], ret.value[k].raw_row)


\* a row fails the basic sanity filter
FailsSanity(row) ==
  Len(row.program_name) <= 5 \/ Contains(Lower(row.program_name), <<"c","o","p","i","e">>)

FailingRows(rows) == SelectSeq(rows, FailsSanity)

PassingRows(rows) == SelectSeq(rows, LAMBDA r : ~FailsSanity(r))

(* C25: when a candidate yields rows, the rows are discarded and the loop goes
   on with the next ranked candidate if and only if more than half of the rows
   fail the sanity filter (name of at most 5 characters, or name containing
   'copie'); when half of them or fewer fail, the candidate is kept and exactly
   the rows that pass the filter, in their order, are handed to fusion. *)
C25_SanityFilter ==
  (/\ ret.done /\ call.op = "examine"
   /\ call.doc.content_score >= 0 - 5 /\ call.doc.extract = "rows" /\ call.doc.rows # <<>>) =>
    /\ ~ret.value.raised
    /\ (ret.value.rows_list = call.rows_list)
         <=> 2 * Len(FailingRows(call.doc.rows)) > Len(call.doc.rows)
    /\ ret.value.outcome = "garbage"
         <=> 2 * Len(FailingRows(call.doc.rows)) > Len(call.doc.rows)
    /\ 2 * Len(FailingRows(call.doc.rows)) <= Len(call.doc.rows) =>
         /\ ret.value.outcome = "extracted"
         /\ ret.value.rows_list =
              Append(call.rows_list,
                     [rows |-> PassingRows(call.doc.rows), url |-> call.candidate.pdf_url,
                      score |-> call.doc.content_score, link_text |-> call.candidate.link_text])

\* exactly half of the rows fail and the candidate is kept with the other half
C25_Witness ==
  /\ ret.done /\ call.op = "examine"
  /\ call.doc.content_score = 5 /\ call.doc.extract = "rows"
  /\ call.doc.rows = <<RowShort, RowFizica, RowCopieUpper, RowAutomatica>>
  /\ ret.value.outcome = "extracted"
  /\ ret.value.rows_list[Len(ret.value.rows_list)].rows = <<RowFizica, RowAutomatica>>

\* the status of the first check of the chain that does not pass, "PASS" when
\* all four pass; missing identifiers are reported as REVIEW
FirstNonPass(name_res, hygiene_res, id_res, spots_res) ==
  IF name_res.status # "PASS" THEN name_res.status
  ELSE IF hygiene_res.status # "PASS" THEN hygiene_res.status
  ELSE IF id_res.status # "PASS" THEN "REVIEW"
  ELSE spots_res.status

(* C26: validate_row returns PASS only when the name check returns PASS, the
   name-hygiene check returns PASS (embedded seat counts or UI noise give
   REVIEW), program_id and admission_year are present (otherwise REVIEW) and
   the numeric seat counts are backed by strong evidence (otherwise REJECT);
   the first check that does not pass determines the returned status. *)
C26_ValidateRowChain ==
  (ret.done /\ call.op = "validate_row") =>
    /\ ret.value.status = "PASS" =>
         /\ validate_program_name(Get(call.row, "name", <<>>)).status = "PASS"
         /\ validate_name_hygiene(call.row).status = "PASS"
         /\ validate_identifiers(call.row).status = "PASS"
         /\ validate_spots_evidence(call.row).status = "PASS"
    /\ ret.value.status =
         FirstNonPass(validate_program_name(Get(call.row, "name", <<>>)),
                      validate_name_hygiene(call.row), validate_identifiers(call.row),
                      validate_spots_evidence(call.row))

\* the text a Stage-A signal is looked for in: link text or url, lower-cased
Mentions(cand, keywords) ==
  AnyIn(keywords, Lower(StrOrEmpty(cand, "link_text"))) \/ AnyIn(keywords, Lower(UrlOf(cand)))

MentionsYear(cand, year) == Mentions(cand, {Str(year)})

\* the keywords of the types that conflict with the target type
ConflictingKeywords(target_type) ==
  UNION { DocTypes[t] : t \in {"SPOTS", "RESULTS", "GUIDE", "EXAM"} \ {target_type} }

\* the Stage-A score as stated
StatedStageA(cand, target_type) ==
  (IF MentionsYear(cand, AdmissionYear) THEN 10
   ELSE IF MentionsYear(cand, AdmissionYear - 1)
     THEN (IF target_type = "RESULTS" THEN 8 ELSE 5)
   ELSE 0)
  + (IF Mentions(cand, DocTypes[target_type]) THEN 15 ELSE 0)
  - (IF Mentions(cand, ConflictingKeywords(target_type)) THEN 10 ELSE 0)
  - (IF Mentions(cand, DocTypes.CALENDAR) THEN 20 ELSE 0)

\* the candidate without the score rank_candidates attaches
Unscored(cand) == [k \in (DOMAIN cand) \ {"stage_a_score"} |-> cand[k]]

(* C27: rank_candidates returns a permutation of its input in non-increasing
   order of stage_a_score, the score being +10 for the admission year in link
   text or url (else +5 for the prior year, +8 for target RESULTS), +15 for a
   keyword of the target type in link text or url, -10 for a keyword of a
   conflicting type and -20 for a calendar keyword in them; with equal year
   signals a candidate with a target keyword alone precedes one with a
   conflicting keyword alone, for targets SPOTS and RESULTS. *)
C27_StageARanking ==
  (ret.done /\ call.op = "rank_candidates" /\ call.target_type \in {"SPOTS", "RESULTS"}) =>
    /\ Len(ret.value) = Len(call.candidates)
    /\ \A c \in RankCandidates :
         Cardinality({ i \in 1..Len(ret.value) : Unscored(ret.value[i]) = c })
           = Cardinality({ i \in 1..Len(call.candidates) : call.candidates[i] = c })
    /\ \A i \in 1..(Len(ret.value) - 1) :
         ret.value[i].stage_a_score >= ret.value[i + 1].stage_a_score
    /\ \A i \in 1..Len(ret.value) :
         ret.value[i].stage_a_score = StatedStageA(Unscored(ret.value[i]), call.target_type)
    /\ \A i, j \in 1..Len(ret.value) :
         (/\ Mentions(ret.value[i], DocTypes[call.target_type])
          /\ ~Mentions(ret.value[i], ConflictingKeywords(call.target_type) \cup DocTypes.CALENDAR)
          /\ Mentions(ret.value[j], ConflictingKeywords(call.target_type))
          /\ ~Mentions(ret.value[j], DocTypes[call.target_type])
          /\ YearScoreFor(call.target_type, Lower(StrOrEmpty(ret.value[i], "link_text")), Lower(UrlOf(ret.value[i])))
               = YearScoreFor(call.target_type, Lower(StrOrEmpty(ret.value[j], "link_text")), Lower(UrlOf(ret.value[j]))))
           => i < j


\* the source a stored PDF-only record was synthesized from
SynthesizedFrom(rec) == CHOOSE src \in PdfSources : src.url = rec.source_url

\* the seat counts of a record
SeatCounts(prog) == <<Get(prog, "spots_budget", NoneN), Get(prog, "spots_tax", NoneN)>>

(* C28: in PDF-only mode a stored record is never replaced by lower-confidence
   data: when a further source yields a validated row for a program that an
   earlier source already stored, the record persisted afterwards holds the
   seat counts of the source with the higher content score, whichever was
   fused first, and its evidence log has one more entry, one per source. *)
C28_PdfOnlyKeepsBest ==
  [][(clock' = clock + 1 /\ last'.mode = "pdf_only") =>
       \A key \in DOMAIN store :
          (/\ store'[key].scraped_at = clock'
           /\ store[key].source_type = "pdf_only"
           /\ store[key].source_url # SourceOf(last').url)
            => /\ Len(Spots(store'[key])) = Len(Spots(store[key])) + 1
               /\ SynthesizedFrom(store[key]).score > SourceOf(last').score
                    => SeatCounts(store'[key]) = SeatCounts(store[key])]_vars

\* the seat count is a number
Known(count) == count # NoneN

(* C29: arbitration never erases known seat counts: once spots_budget (or
   spots_tax) of a record holds a number, no later accepted match replaces it
   with a null value; a PDF row that carries the name but no seat counts does
   not overwrite numeric values, whatever its score. *)
C29_NeverErased ==
  [][\A i \in 1..Len(programs) :
        /\ Known(SeatCounts(programs[i])[1]) => Known(SeatCounts(programs'[i])[1])
        /\ Known(SeatCounts(programs[i])[2]) => Known(SeatCounts(programs'[i])[2])]_vars

(* C30: matching is one-to-one per source: within one call of _fuse_data a PDF
   row is accepted as evidence (score > 0.65) for at most one HTML record, so
   the seat counts of one PDF line are not materialized on two programs. *)
C30_OneToOne ==
  last.mode = "html" =>
    \A i \in 1..Len(last.results) : \A j \in 1..Len(last.results) :
       (FusedLast(last, i) /\ FusedLast(last, j) /\ last.results[i].match = last.results[j].match)
         => i = j
====
